---- MODULE Spec2Model ----
(***************************************************************************)
(* Durable Arazzo workflow executor: the store's run/step/attempt rows,    *)
(* the scheduler loop of Executor::execute_run, the per-step workers, the  *)
(* cancel command and crash + resume; the retry decider, the policy gate   *)
(* and one attempt of a step with the events it emits.                     *)
(*                                                                         *)
(* One run is modelled.  Every action is one store call (one SQL           *)
(* statement or one transaction) together with the local control flow      *)
(* around it; calls of different tasks/processes interleave.               *)
(***************************************************************************)
EXTENDS Integers, FiniteSets, Sequences, TLC

(***************************************************************************)
(* Bounds of the model.                                                    *)
(***************************************************************************)
\* ExecutorConfig.global_concurrency (default 10), the limit of claim_steps
GlobalConcurrency == 2
\* RetryConfig.max_attempts (default 5)
MaxAttempts == 2
\* largest retry delay, in clock ticks
MaxDelay == 1
\* the clock stops here
MaxTime == 1
\* process crashes in one behaviour
MaxCrashes == 1
\* concurrent callers of insert_attempt_auto in AttemptSpec
NumCallers == 2
\* attempt rows per step in AttemptSpec
MaxRows == 3
\* largest retryLimit a failure action declares in UnitSpec
MaxRetryLimit == 2

\* step rows of the run, named by step_index
Steps == {1, 2, 3}

\* SQL NULL for next_run_at
NULL == -1

\* run rows in RunSpec
MaxRunRows == 2
\* step rows in RunSpec
MaxStepRows == 3
\* distinct doc_hash values in DocSpec
MaxDocs == 2
\* store calls that fail in one behaviour of ErrorSpec
MaxStoreErrors == 1

\* depends_on of the workflows the run may be created from (acyclic,
\* duplicate-free: build_step_dependency_graph works on sets and rejects cycles)
Workflows ==
    { [s \in Steps |-> {}],
      [s \in Steps |-> IF s = 1 THEN {} ELSE {s - 1}],
      [s \in Steps |-> IF s = 1 THEN {} ELSE {1}],
      [s \in Steps |-> IF s = 3 THEN {1, 2} ELSE {}],
      [s \in Steps |-> IF s = 1 THEN {3} ELSE {}] }

RunTerminal == {"succeeded", "failed", "canceled"}
StepTerminal == {"succeeded", "failed", "skipped"}

VARIABLES
    runStatus,      \* workflow_runs.status
    dependsOn,      \* run_steps.depends_on / run_step_edges (to <- from)
    stepStatus,     \* run_steps.status
    depsRemaining,  \* run_steps.deps_remaining
    nextRunAt,      \* run_steps.next_run_at
    attempts,       \* step_attempts.attempt_no per run_step_id, in insert order
    now,            \* the database clock now()
    schedPc,        \* position of the execute / resume command
    worker,         \* position of the worker task of each step
    cancelPc,       \* position of the cancel command
    crashes,        \* crashes so far
    claimLog,       \* history: rows held by a claimer, and whether one was claimed twice
    callers,        \* AttemptSpec: concurrent insert_attempt_auto statements
    runFinished,    \* statuses carried by the run.finished events emitted so far
    flow,           \* WorkerSpec: the run_step call of each step, statement by statement
    dec,            \* the last direct call of a function or store operation, and its result
    attemptStatus,  \* step_attempts.status per run_step_id, row by row as attempts
    attemptId,      \* the attempt id each worker task got from insert_attempt_auto (0: none)
    tables,         \* rows of workflow_docs, workflow_runs, run_steps and run_step_edges in RunSpec and DocSpec
    execError,      \* ErrorSpec: the ExecutionError execute_run returned (none: no error)
    storeFailed,    \* ErrorSpec: the store calls that returned an error
    permits,        \* per step, the position of its task with respect to the run's ConcurrencyLimits
    sourceRows,     \* per step row, the source its operation resolves to and the stored source_name
    provider,       \* CacheSpec: the CachingProvider: its config, its State (cache, inflight), the Notify objects fired, the inner provider's call count
    getter,         \* CacheSpec: the get call each caller is in, statement by statement
    getLog,         \* CacheSpec: history of the get calls: what each found at its start, the calls in progress then, its inner call and its result
    instant,        \* CacheSpec: Instant::now()
    retryMaxAttempts \* retry.max_attempts of the executor's configuration

vars == <<runStatus, dependsOn, stepStatus, depsRemaining, nextRunAt, attempts,
          now, schedPc, worker, cancelPc, crashes, claimLog, callers,
          runFinished, flow, dec, attemptStatus, attemptId, tables, execError, storeFailed, permits, sourceRows, provider, getter, getLog, instant, retryMaxAttempts>>

storeVars == <<runStatus, dependsOn, stepStatus, depsRemaining, nextRunAt>>

Max(S) == CHOOSE x \in S : \A y \in S : y <= x

Range(f) == {f[i] : i \in DOMAIN f}

(***************************************************************************)
(* Store operations (arazzo-store/src/postgres).                           *)
(***************************************************************************)

\* the WHERE clause without "deps_remaining = 0"
RunnableIgnoringDeps(s) ==
    /\ stepStatus[s] = "pending"
    /\ (nextRunAt[s] = NULL \/ nextRunAt[s] <= now)

\* the WHERE clause without the next_run_at condition
RunnableIgnoringNextRunAt(s) ==
    /\ stepStatus[s] = "pending"
    /\ depsRemaining[s] = 0

\* WHERE clause of the picked CTE of claim_runnable_steps
Runnable(s) ==
    /\ stepStatus[s] = "pending"
    /\ depsRemaining[s] = 0
    /\ (nextRunAt[s] = NULL \/ nextRunAt[s] <= now)

\* the picked CTE without "LIMIT $2"
PickedUnlimited(limit) == {s \in Steps : Runnable(s)}

\* ORDER BY step_index ... LIMIT $2: the first `limit` runnable rows
Picked(limit) ==
    {s \in Steps : Runnable(s) /\ Cardinality({t \in Steps : Runnable(t) /\ t < s}) < limit}

\* UPDATE ... SET status = 'running' FROM picked
ClaimUpdate(rows) ==
    [s \in Steps |-> IF s \in rows THEN "running" ELSE stepStatus[s]]

\* rows of run_step_edges leaving s
Children(s) == {t \in Steps : s \in dependsOn[t]}

\* mark_step_succeeded: both UPDATEs of the transaction
SucceededStatus(s) == [stepStatus EXCEPT ![s] = "succeeded"]

\* the transaction without its second UPDATE
SucceededDepsUnchanged(s) == depsRemaining

SucceededDeps(s) ==
    [d \in Steps |->
        IF d \in Children(s) /\ SucceededStatus(s)[d] = "pending"
        THEN Max({depsRemaining[d] - 1, 0})
        ELSE depsRemaining[d]]

\* the recursive CTE to_skip of mark_step_failed, evaluated on the statuses st
\* the transaction sees after its first UPDATE
RECURSIVE ToSkipFrom(_, _)
ToSkipFrom(T, st) ==
    LET more == {t \in Steps : /\ \E u \in T : u \in dependsOn[t]
                               /\ st[t] \notin StepTerminal}
    IN  IF more \subseteq T THEN T ELSE ToSkipFrom(T \cup more, st)

\* to_skip without its recursive term: the direct children only
ToSkipDirect(s, st) == Children(s)

ToSkip(s, st) == ToSkipFrom(Children(s), st)

\* mark_step_failed: both UPDATEs of the transaction
FailedStatus(s) ==
    LET st == [stepStatus EXCEPT ![s] = "failed"]
    IN  [d \in Steps |->
            IF d \in ToSkip(s, st) /\ st[d] = "pending" THEN "skipped" ELSE st[d]]

\* the UPDATE without "AND status = 'running'"
ResetEveryStatus == [s \in Steps |-> "pending"]

\* reset_stale_running_steps
ResetStatus ==
    [s \in Steps |-> IF stepStatus[s] = "running" THEN "pending" ELSE stepStatus[s]]

\* COALESCE(MAX(attempt_no), 1) + 1
NextAttemptNoFromOne(rows) == Max(rows \cup {1}) + 1

\* insert_attempt_auto: COALESCE(MAX(attempt_no), 0) + 1 over the rows seen
NextAttemptNo(rows) == Max(rows \cup {0}) + 1

(***************************************************************************)
(* Retry decider (arazzo-exec/src/retry) and failure decision              *)
(* (arazzo-exec/src/executor/failure.rs).  Durations are in milliseconds,  *)
(* header values and retryAfter in seconds, as in the code.  An absent     *)
(* Option<number> is NULL; Option<&headers> is the empty set or {headers}. *)
(***************************************************************************)
Min(a, b) == IF a < b THEN a ELSE b

RECURSIVE Pow(_, _)
Pow(b, e) == IF e <= 0 THEN 1 ELSE b * Pow(b, e - 1)

\* RetryConfig::default(): retry_statuses, base_delay, factor, max_delay
RetryStatuses == {429, 503, 502, 504, 408}
BaseDelayMs == 1000
Factor == 2
MaxDelayMs == 60000

\* Duration::from_secs
MsPerSec == 1000

\* a RetryConfig with the defaults and the given max_attempts and vendor headers
RetryCfg(maxAttempts, vendorHeaders) ==
    [retry_statuses |-> RetryStatuses, base_delay |-> BaseDelayMs, factor |-> Factor,
     max_delay |-> MaxDelayMs, vendor_headers |-> vendorHeaders,
     max_attempts |-> maxAttempts]

\* a header that is not in the map
Absent == [kind |-> "absent", v |-> 0]

\* get_header_ci: the value of the header, or Absent
GetHeaderCi(headers, name) == headers[name]

\* parse_retry_after_value: a number is delta-seconds, an HTTP-date gives the
\* time from now to the date and nothing when the date is before now
ParseRetryAfterValue(v, nowT) ==
    IF v.kind = "num" THEN v.v * MsPerSec
    ELSE IF v.kind = "date" /\ v.v >= nowT THEN (v.v - nowT) * MsPerSec
    ELSE NULL

\* parse_vendor_value
ParseVendorValue(v, kind, nowT) ==
    IF kind = "DeltaSeconds"
    THEN IF v.kind = "num" THEN v.v * MsPerSec ELSE NULL
    ELSE IF kind = "UnixSeconds"
    THEN IF v.kind = "num" /\ v.v >= nowT THEN (v.v - nowT) * MsPerSec ELSE NULL
    ELSE IF v.kind = "date" /\ v.v >= nowT THEN (v.v - nowT) * MsPerSec ELSE NULL

\* parse_retry_after: the loop over cfg.vendor_headers, from index i
RECURSIVE ParseVendorFrom(_, _, _, _)
ParseVendorFrom(headers, vendorHeaders, i, nowT) ==
    IF i > Len(vendorHeaders) THEN NULL
    ELSE LET v == GetHeaderCi(headers, vendorHeaders[i].name)
             d == IF v.kind = "absent" THEN NULL
                  ELSE ParseVendorValue(v, vendorHeaders[i].kind, nowT)
         IN  IF d # NULL THEN d ELSE ParseVendorFrom(headers, vendorHeaders, i + 1, nowT)

\* the standard header of the map, parsed
ParseStandard(headers, nowT) ==
    LET v == GetHeaderCi(headers, "retry-after")
    IN  IF v.kind = "absent" THEN NULL ELSE ParseRetryAfterValue(v, nowT)

\* parse_retry_after with the vendor headers tried before the standard one
ParseRetryAfterVendorFirst(headers, vendorHeaders, nowT) ==
    IF ParseVendorFrom(headers, vendorHeaders, 1, nowT) # NULL
    THEN ParseVendorFrom(headers, vendorHeaders, 1, nowT)
    ELSE ParseStandard(headers, nowT)

\* parse_retry_after: the standard header wins, then the vendor headers
ParseRetryAfter(headers, vendorHeaders, nowT) ==
    IF ParseStandard(headers, nowT) # NULL
    THEN ParseStandard(headers, nowT)
    ELSE ParseVendorFrom(headers, vendorHeaders, 1, nowT)

Clamp(delay, max) == IF delay > max THEN max ELSE delay

Stop(reason) == [kind |-> "Stop", reason |-> reason, delay |-> 0]

RetryAfter(delay, reason) == [kind |-> "RetryAfter", reason |-> reason, delay |-> delay]

\* decide_retry after its policy_failed test, without the test of attempt_no
DecideRetryUnlimited(cfg, attempt_no, arazzo_retry_limit, arazzo_retry_after_seconds, http_status, response_headers, network_failed, nowT, rand_u64) ==
    IF http_status # NULL /\ http_status \notin cfg.retry_statuses THEN Stop("HttpStatus")
    ELSE IF http_status = NULL /\ ~network_failed THEN Stop("NotRetryable")
    ELSE RetryAfter(0, "Backoff")

\* decide_retry after its policy_failed test (decision.rs lines 53-101)
DecideRetryAllowed(cfg, attempt_no, arazzo_retry_limit, arazzo_retry_after_seconds, http_status, response_headers, network_failed, nowT, rand_u64) ==
    LET arazzo_limit == IF arazzo_retry_limit = NULL THEN 1 ELSE arazzo_retry_limit
        max_attempts == Min(cfg.max_attempts, Max({arazzo_limit, 1}) + 1)
        parsed == IF response_headers = {} THEN NULL
                  ELSE ParseRetryAfter(CHOOSE h \in response_headers : TRUE,
                                       cfg.vendor_headers, nowT)
        exp == Max({attempt_no - 1, 0})
        raw_ms == Max({Min(cfg.base_delay * Pow(cfg.factor, exp), cfg.max_delay), 0})
        jitter_ms == IF raw_ms = 0 THEN 0 ELSE rand_u64 % (raw_ms + 1)
    IN  IF attempt_no >= max_attempts THEN Stop("AttemptsExhausted")
        ELSE IF http_status # NULL /\ http_status \notin cfg.retry_statuses
             THEN Stop("HttpStatus")
        ELSE IF http_status = NULL /\ ~network_failed THEN Stop("NotRetryable")
        ELSE IF parsed # NULL THEN RetryAfter(Clamp(parsed, cfg.max_delay), "RetryAfterHeader")
        ELSE IF arazzo_retry_after_seconds # NULL
             THEN RetryAfter(Clamp(arazzo_retry_after_seconds * MsPerSec, cfg.max_delay),
                             "Backoff")
        ELSE RetryAfter(jitter_ms,
                        IF http_status # NULL THEN "HttpStatus" ELSE "NetworkFailure")

\* decide_retry without its policy_failed test
DecideRetryIgnoringPolicy(cfg, attempt_no, arazzo_retry_limit, arazzo_retry_after_seconds, policy_failed, http_status, response_headers, network_failed, nowT, rand_u64) ==
    DecideRetryAllowed(cfg, attempt_no, arazzo_retry_limit, arazzo_retry_after_seconds,
                       http_status, response_headers, network_failed, nowT, rand_u64)

\* decide_retry
DecideRetry(cfg, attempt_no, arazzo_retry_limit, arazzo_retry_after_seconds, policy_failed, http_status, response_headers, network_failed, nowT, rand_u64) ==
    IF policy_failed THEN Stop("PolicyFailure")
    ELSE DecideRetryAllowed(cfg, attempt_no, arazzo_retry_limit, arazzo_retry_after_seconds,
                            http_status, response_headers, network_failed, nowT, rand_u64)

\* the StepResult values of worker.rs
Succeeded == [kind |-> "Succeeded", delay_ms |-> 0, error |-> "none", end_run |-> FALSE]

Retry(delay_ms, error) ==
    [kind |-> "Retry", delay_ms |-> delay_ms, error |-> error, end_run |-> FALSE]

Failed(error, end_run) ==
    [kind |-> "Failed", delay_ms |-> 0, error |-> error, end_run |-> end_run]

\* decide_failure: the loop over step.on_failure, from index i
RECURSIVE DecideFailureFrom(_, _, _, _, _, _, _)
DecideFailureFrom(cfg, actions, i, attempt_no, resp, nowT, rand_u64) ==
    IF i > Len(actions) THEN Failed("http", TRUE)
    ELSE LET a == actions[i]
             d == DecideRetry(cfg, attempt_no, a.retry_limit, a.retry_after_seconds, FALSE,
                              resp.status, {resp.headers}, FALSE, nowT, rand_u64)
         IN  IF a.type = "retry" /\ d.kind = "RetryAfter" THEN Retry(d.delay, "http")
             ELSE IF a.type = "end" THEN Failed("http", TRUE)
             ELSE DecideFailureFrom(cfg, actions, i + 1, attempt_no, resp, nowT, rand_u64)

\* decide_failure that consults the retry decider for every action type
DecideFailureAnyAction(cfg, actions, attempt_no, resp, nowT, rand_u64) ==
    IF DecideRetry(cfg, attempt_no, NULL, NULL, FALSE, resp.status, {resp.headers}, FALSE,
                   nowT, rand_u64).kind = "RetryAfter"
    THEN Retry(0, "http")
    ELSE Failed("http", TRUE)

DecideFailure(cfg, actions, attempt_no, resp, nowT, rand_u64) ==
    DecideFailureFrom(cfg, actions, 1, attempt_no, resp, nowT, rand_u64)

\* decide_network_failure: the loop over step.on_failure, from index i
RECURSIVE DecideNetworkFailureFrom(_, _, _, _, _, _)
DecideNetworkFailureFrom(cfg, actions, i, attempt_no, nowT, rand_u64) ==
    IF i > Len(actions) THEN Failed("network", TRUE)
    ELSE LET a == actions[i]
             d == DecideRetry(cfg, attempt_no, a.retry_limit, a.retry_after_seconds, FALSE,
                              NULL, {}, TRUE, nowT, rand_u64)
         IN  IF a.type = "retry" /\ d.kind = "RetryAfter" THEN Retry(d.delay, "network")
             ELSE DecideNetworkFailureFrom(cfg, actions, i + 1, attempt_no, nowT, rand_u64)

DecideNetworkFailure(cfg, actions, attempt_no, nowT, rand_u64) ==
    DecideNetworkFailureFrom(cfg, actions, 1, attempt_no, nowT, rand_u64)

(***************************************************************************)
(* Policy gate (arazzo-exec/src/policy) and one attempt of a step          *)
(* (execute_step_attempt in arazzo-exec/src/executor/worker.rs).           *)
(***************************************************************************)

\* NetworkConfig of the gate: https only, the allow-list of the deployment,
\* deny_private_ip_literals = true.  A host is its sequence of labels.
AllowedSchemes == {"https"}
AllowedHosts == {<<"example", "com">>, <<"10", "0", "0", "1">>}

\* RequestLimits::default() and ResponseLimits::default()
RequestMaxBodyBytes == 1048576
RequestMaxHeadersCount == 100
RequestMaxHeadersBytes == 16384
ResponseMaxBodyBytes == 4194304
ResponseMaxHeadersCount == 100
ResponseMaxHeadersBytes == 32768

\* host.ends_with(".h")
IsSubdomain(host, h) ==
    /\ Len(host) > Len(h)
    /\ SubSeq(host, Len(host) - Len(h) + 1, Len(host)) = h

\* host_allowed
HostAllowed(host) ==
    /\ AllowedHosts # {}
    /\ \/ host \in AllowedHosts
       \/ \E h \in AllowedHosts : IsSubdomain(host, h)

\* enforce_headers
EnforceHeaders(count, bytes, max_count, max_bytes) ==
    IF count > max_count THEN "HeaderCount"
    ELSE IF bytes > max_bytes THEN "HeaderBytes"
    ELSE "ok"

\* enforce_request that lets every request through
EnforceRequestAllowAll(req) == "ok"

\* enforce_request: "ok" or the PolicyGateError
EnforceRequest(req) ==
    IF req.scheme \notin AllowedSchemes THEN "Scheme"
    ELSE IF req.host = <<>> \/ ~HostAllowed(req.host) THEN "Host"
    ELSE IF req.private_ip THEN "PrivateIp"
    ELSE IF EnforceHeaders(req.headers_count, req.headers_bytes,
                           RequestMaxHeadersCount, RequestMaxHeadersBytes) # "ok"
         THEN EnforceHeaders(req.headers_count, req.headers_bytes,
                             RequestMaxHeadersCount, RequestMaxHeadersBytes)
    ELSE IF req.body_len > RequestMaxBodyBytes THEN "RequestBodyTooLarge"
    ELSE "ok"

\* enforce_response: "ok" or the PolicyGateError
EnforceResponse(resp) ==
    IF EnforceHeaders(resp.headers_count, resp.headers_bytes,
                      ResponseMaxHeadersCount, ResponseMaxHeadersBytes) # "ok"
    THEN EnforceHeaders(resp.headers_count, resp.headers_bytes,
                        ResponseMaxHeadersCount, ResponseMaxHeadersBytes)
    ELSE IF resp.body_len > ResponseMaxBodyBytes THEN "ResponseBodyTooLarge"
    ELSE "ok"

\* evaluate_success of a step without successCriteria
EvaluateSuccess(resp) == resp.status >= 200 /\ resp.status < 300

\* one entry of what an attempt did: an event emitted or a call made
Ev(name, arg) == [name |-> name, arg |-> arg]

\* execute_step_attempt, from build_request's result to the StepResult, with
\* the events it emits and the store / HTTP calls it makes, in order.
\* req: the built request (req.build_ok = FALSE: build_request failed);
\* rows: the attempt_no values the step already has; insert_ok: whether
\* insert_attempt_auto succeeds; sent: what http.send returns.
ExecuteStepAttempt(cfg, actions, req, rows, insert_ok, sent, nowT, rand_u64) ==
    LET attempt_no == NextAttemptNo(rows)
        started == << Ev("insert_attempt_auto", attempt_no),
                      Ev("attempt.started", attempt_no),
                      Ev("http.send", req.id) >>
    IN  IF ~req.build_ok
        THEN [result |-> Failed("build", TRUE), trace |-> <<>>, attempt_no |-> NULL]
        ELSE IF EnforceRequest(req) # "ok"
        THEN [result |-> Failed("policy", TRUE), trace |-> <<>>, attempt_no |-> NULL]
        ELSE IF ~insert_ok
        THEN [result |-> Failed("store", TRUE), trace |-> <<>>, attempt_no |-> NULL]
        ELSE IF sent.kind = "error"
        THEN [result |-> DecideNetworkFailure(cfg, actions, attempt_no, nowT, rand_u64),
              trace |-> started \o << Ev("finish_attempt", attempt_no),
                                      Ev("attempt.finished", attempt_no) >>,
              attempt_no |-> attempt_no]
        ELSE IF EnforceResponse(sent.resp) # "ok"
        THEN [result |-> Failed("policy", TRUE),
              trace |-> started \o << Ev("finish_attempt", attempt_no),
                                      Ev("attempt.finished", attempt_no) >>,
              attempt_no |-> attempt_no]
        ELSE IF EvaluateSuccess(sent.resp)
        THEN [result |-> Succeeded,
              trace |-> started \o << Ev("finish_attempt", attempt_no) >>,
              attempt_no |-> attempt_no]
        ELSE [result |-> DecideFailure(cfg, actions, attempt_no, sent.resp, nowT, rand_u64),
              trace |-> started \o << Ev("finish_attempt", attempt_no) >>,
              attempt_no |-> attempt_no]

\* eval_value on an output expression: Ok(value), or Err for an expression it
\* does not support ("unsupported runtime expression")
EvalValue(expr) ==
    IF expr = "$response.body#/id" THEN [ok |-> TRUE, v |-> "id-1"]
    ELSE IF expr = "$statusCode" THEN [ok |-> TRUE, v |-> "200"]
    ELSE [ok |-> FALSE, v |-> "unsupported runtime expression"]

\* compute_outputs: every entry of step.outputs evaluated, an evaluation
\* error replaced by null (unwrap_or(JsonValue::Null))
ComputeOutputs(outputs) ==
    [k \in DOMAIN outputs |->
        LET r == EvalValue(outputs[k]) IN IF r.ok THEN r.v ELSE "null"]

\* execute_step_attempt for a step that declares outputs: on a response that
\* meets the success criteria compute_outputs runs before finish_attempt and
\* its value is carried by StepResult::Succeeded
ExecuteStepAttemptOutputs(cfg, actions, outputs, req, rows, insert_ok, sent, nowT, rand_u64) ==
    LET r == ExecuteStepAttempt(cfg, actions, req, rows, insert_ok, sent, nowT, rand_u64)
    IN  [result |-> r.result, trace |-> r.trace, attempt_no |-> r.attempt_no,
         outputs |-> IF r.result.kind = "Succeeded" THEN ComputeOutputs(outputs)
                     ELSE ComputeOutputs(<<>>)]

\* no run_step call is in progress for the step
FlowIdle == [pc |-> "idle"]

\* the retry decider has not been called
DecIdle == [pc |-> "idle"]

\* no document and no run has been stored
EmptyTables ==
    [workflow_docs |-> <<>>, workflow_runs |-> <<>>, run_steps |-> <<>>,
     run_step_edges |-> {}]

\* the callers of CachingProvider::get
MaxGetters == 2

Getters == 1 .. MaxGetters

\* before CachingProvider::new
NoProvider == [built |-> FALSE, config |-> [ttl |-> 0, max_entries |-> 0], cache |-> {}, inflight |-> {}, fired |-> {}, notifies |-> 0, inner |-> 0]

\* a caller that is not inside get
GetIdle == [pc |-> "idle", ref |-> "", n |-> 0, call |-> 0, fetched |-> [ok |-> FALSE, value |-> 0]]

(***************************************************************************)
(* Initial state: create_run_and_steps has committed.                      *)
(***************************************************************************)
InitWith(max_attempts) ==
    /\ runStatus = "queued"
    /\ dependsOn \in Workflows
    /\ stepStatus = [s \in Steps |-> "pending"]
    /\ depsRemaining = [s \in Steps |-> Cardinality(dependsOn[s])]
    /\ nextRunAt = [s \in Steps |-> NULL]
    /\ attempts = [s \in Steps |-> <<>>]
    /\ now = 0
    /\ schedPc = "init"
    /\ worker = [s \in Steps |-> "none"]
    /\ cancelPc = "idle"
    /\ crashes = 0
    /\ claimLog = [held |-> {}, twice |-> FALSE]
    /\ callers = [c \in 1..NumCallers |-> [pc |-> "idle", step |-> 1, no |-> 0]]
    /\ runFinished = {}
    /\ flow = [s \in Steps |-> FlowIdle]
    /\ dec = DecIdle
    /\ attemptStatus = [s \in Steps |-> <<>>]
    /\ attemptId = [s \in Steps |-> 0]
    /\ tables = EmptyTables
    /\ execError = "none"
    /\ storeFailed = {}
    /\ permits = [s \in Steps |-> "none"]
    /\ sourceRows = <<>>
    /\ provider = NoProvider
    /\ getter = [g \in Getters |-> GetIdle]
    /\ getLog = <<>>
    /\ instant = 0
    /\ retryMaxAttempts = max_attempts

\* the executor is configured with MaxAttempts attempts
Init == InitWith(MaxAttempts)

\* the executor is configured with any number of attempts, 0 included
RetryInit == \E max_attempts \in 0 .. MaxAttempts : InitWith(max_attempts)

\* a claim call returned rows: they are held by the claimer until put back
LogClaim(rows) ==
    [held |-> claimLog.held \cup rows,
     twice |-> claimLog.twice \/ (rows \cap claimLog.held # {})]

LogRelease(rows) == [claimLog EXCEPT !.held = @ \ rows]

(***************************************************************************)
(* Scheduler: Executor::execute_run and Executor::is_run_complete.         *)
(***************************************************************************)

\* mark_run_started, called by execute_run before the loop
ExecStart ==
    /\ schedPc = "init"
    /\ runStatus' = IF runStatus = "queued" THEN "running" ELSE runStatus
    /\ schedPc' = "claim"
    /\ UNCHANGED <<dependsOn, stepStatus, depsRemaining, nextRunAt, attempts, now,
                   worker, cancelPc, crashes, claimLog, callers, runFinished,
                   flow, dec, attemptStatus, attemptId, tables, execError, storeFailed, permits, sourceRows, provider, getter, getLog, instant, retryMaxAttempts>>

\* claim_steps, then spawn_steps for the claimed rows
ClaimSteps ==
    /\ schedPc = "claim"
    /\ LET rows == Picked(GlobalConcurrency)
       IN  /\ stepStatus' = ClaimUpdate(rows)
           /\ claimLog' = LogClaim(rows)
           /\ worker' = [s \in Steps |-> IF s \in rows THEN "start" ELSE worker[s]]
           /\ schedPc' = IF rows = {} THEN "complete" ELSE "await"
    /\ UNCHANGED <<runStatus, dependsOn, depsRemaining, nextRunAt, attempts, now,
                   cancelPc, crashes, callers, runFinished,
                   flow, dec, attemptStatus, attemptId, tables, execError, storeFailed, permits, sourceRows, provider, getter, getLog, instant, retryMaxAttempts>>

\* collect_results: every handle of the iteration has been awaited
CollectResults ==
    /\ schedPc = "await"
    /\ \A s \in Steps : worker[s] = "none"
    /\ schedPc' = "claim"
    /\ UNCHANGED <<storeVars, attempts, now, worker, cancelPc, crashes, claimLog, callers, runFinished,
                   flow, dec, attemptStatus, attemptId, tables, execError, storeFailed, permits, sourceRows, provider, getter, getLog, instant, retryMaxAttempts>>

\* is_run_complete: claim_runnable_steps(run_id, 1)
CompleteClaim ==
    /\ schedPc = "complete"
    /\ LET rows == Picked(1)
       IN  /\ stepStatus' = ClaimUpdate(rows)
           /\ claimLog' = LogClaim(rows)
           /\ schedPc' = IF rows = {} THEN "complete_steps" ELSE "sleep"
    /\ UNCHANGED <<runStatus, dependsOn, depsRemaining, nextRunAt, attempts, now,
                   worker, cancelPc, crashes, callers, runFinished,
                   flow, dec, attemptStatus, attemptId, tables, execError, storeFailed, permits, sourceRows, provider, getter, getLog, instant, retryMaxAttempts>>

\* is_run_complete: get_run_steps and the all_terminal test
CompleteSteps ==
    /\ schedPc = "complete_steps"
    /\ schedPc' = IF \A s \in Steps : stepStatus[s] \in StepTerminal
                  THEN "complete_run" ELSE "sleep"
    /\ UNCHANGED <<storeVars, attempts, now, worker, cancelPc, crashes, claimLog, callers, runFinished,
                   flow, dec, attemptStatus, attemptId, tables, execError, storeFailed, permits, sourceRows, provider, getter, getLog, instant, retryMaxAttempts>>

\* is_run_complete: get_run and the test of the run's status; when the run is
\* already terminal is_run_complete returns true and execute_run emits
\* RunFinished(Succeeded) and returns
CompleteGetRun ==
    /\ schedPc = "complete_run"
    /\ schedPc' = IF runStatus \in {"pending", "queued", "running"}
                  THEN "complete_finish" ELSE "done"
    /\ runFinished' = IF runStatus \in {"pending", "queued", "running"}
                      THEN runFinished ELSE runFinished \cup {"succeeded"}
    /\ UNCHANGED <<storeVars, attempts, now, worker, cancelPc, crashes, claimLog, callers,
                   flow, dec, attemptStatus, attemptId, tables, execError, storeFailed, permits, sourceRows, provider, getter, getLog, instant, retryMaxAttempts>>

\* is_run_complete: mark_run_finished(Succeeded); execute_run emits
\* RunFinished(Succeeded) and returns
CompleteFinish ==
    /\ schedPc = "complete_finish"
    /\ runStatus' = "succeeded"
    /\ runFinished' = runFinished \cup {"succeeded"}
    /\ schedPc' = "done"
    /\ UNCHANGED <<dependsOn, stepStatus, depsRemaining, nextRunAt, attempts, now,
                   worker, cancelPc, crashes, claimLog, callers, flow, dec, attemptStatus, attemptId, tables, execError, storeFailed, permits, sourceRows, provider, getter, getLog, instant, retryMaxAttempts>>

\* tokio::time::sleep(poll_interval); continue
Sleep ==
    /\ schedPc = "sleep"
    /\ schedPc' = "claim"
    /\ UNCHANGED <<storeVars, attempts, now, worker, cancelPc, crashes, claimLog, callers, runFinished,
                   flow, dec, attemptStatus, attemptId, tables, execError, storeFailed, permits, sourceRows, provider, getter, getLog, instant, retryMaxAttempts>>

\* the database clock advances; now() is only ever compared with a
\* next_run_at, so time passing while no row waits for a later time is not
\* observable and is left out
Tick ==
    /\ now < MaxTime
    /\ \E s \in Steps : nextRunAt[s] # NULL /\ nextRunAt[s] > now
    /\ now' = now + 1
    /\ UNCHANGED <<storeVars, attempts, schedPc, worker, cancelPc, crashes, claimLog, callers, runFinished,
                   flow, dec, attemptStatus, attemptId, tables, execError, storeFailed, permits, sourceRows, provider, getter, getLog, instant, retryMaxAttempts>>

(***************************************************************************)
(* Worker: run_step, execute_step_attempt and apply_result.                *)
(***************************************************************************)

\* execute_step_attempt: insert_attempt_auto, then the request is sent
WorkerInsertAttempt(s) ==
    /\ worker[s] = "start"
    /\ attempts' = [attempts EXCEPT ![s] = Append(@, NextAttemptNo(Range(@)))]
    /\ worker' = [worker EXCEPT ![s] = "sent"]
    /\ UNCHANGED <<storeVars, now, schedPc, cancelPc, crashes, claimLog, callers, runFinished,
                   flow, dec, attemptStatus, attemptId, tables, execError, storeFailed, permits, sourceRows, provider, getter, getLog, instant, retryMaxAttempts>>

\* the attempt met the success criteria: apply_result calls mark_step_succeeded
WorkerSucceed(s) ==
    /\ worker[s] = "sent"
    /\ stepStatus' = SucceededStatus(s)
    /\ depsRemaining' = SucceededDeps(s)
    /\ worker' = [worker EXCEPT ![s] = "none"]
    /\ UNCHANGED <<runStatus, dependsOn, nextRunAt, attempts, now, schedPc, cancelPc,
                   crashes, claimLog, callers, runFinished,
                   flow, dec, attemptStatus, attemptId, tables, execError, storeFailed, permits, sourceRows, provider, getter, getLog, instant, retryMaxAttempts>>

\* decide_retry allows a retry only while attempt_no < max_attempts
RetryAllowed(attemptNo) == attemptNo < MaxAttempts

\* the attempt failed and decide_failure returned Retry: apply_result calls
\* schedule_retry(delay)
WorkerRetry(s, delay) ==
    /\ worker[s] = "sent"
    /\ RetryAllowed(attempts[s][Len(attempts[s])])
    /\ now + delay <= MaxTime
    /\ stepStatus' = [stepStatus EXCEPT ![s] = "pending"]
    /\ nextRunAt' = [nextRunAt EXCEPT ![s] = now + delay]
    /\ claimLog' = LogRelease({s})
    /\ worker' = [worker EXCEPT ![s] = "none"]
    /\ UNCHANGED <<runStatus, dependsOn, depsRemaining, attempts, now, schedPc, cancelPc,
                   crashes, callers, runFinished,
                   flow, dec, attemptStatus, attemptId, tables, execError, storeFailed, permits, sourceRows, provider, getter, getLog, instant, retryMaxAttempts>>

\* the step result is Failed (build or policy error before any attempt, or a
\* failed attempt that is not retried): apply_result calls mark_step_failed
WorkerFail(s) ==
    /\ worker[s] \in {"start", "sent"}
    /\ stepStatus' = FailedStatus(s)
    /\ worker' = [worker EXCEPT ![s] = "failed"]
    /\ UNCHANGED <<runStatus, dependsOn, depsRemaining, nextRunAt, attempts, now, schedPc,
                   cancelPc, crashes, claimLog, callers, runFinished,
                   flow, dec, attemptStatus, attemptId, tables, execError, storeFailed, permits, sourceRows, provider, getter, getLog, instant, retryMaxAttempts>>

\* apply_result, end_run: mark_run_finished(Failed)
WorkerEndRun(s) ==
    /\ worker[s] = "failed"
    /\ runStatus' = "failed"
    /\ worker' = [worker EXCEPT ![s] = "none"]
    /\ UNCHANGED <<dependsOn, stepStatus, depsRemaining, nextRunAt, attempts, now, schedPc,
                   cancelPc, crashes, claimLog, callers, runFinished,
                   flow, dec, attemptStatus, attemptId, tables, execError, storeFailed, permits, sourceRows, provider, getter, getLog, instant, retryMaxAttempts>>

(***************************************************************************)
(* The cancel command (arazzo-cli/src/cmd/cancel.rs).                      *)
(***************************************************************************)

\* get_run and the tests of previous_status; the command is issued against a
\* run that execute_run has been called for
CancelGetRun ==
    /\ cancelPc = "idle"
    /\ runStatus # "queued"
    /\ cancelPc' = IF runStatus \in RunTerminal THEN "done" ELSE "mark"
    /\ UNCHANGED <<storeVars, attempts, now, schedPc, worker, crashes, claimLog, callers, runFinished,
                   flow, dec, attemptStatus, attemptId, tables, execError, storeFailed, permits, sourceRows, provider, getter, getLog, instant, retryMaxAttempts>>

\* mark_run_finished(run, "canceled")
CancelMark ==
    /\ cancelPc = "mark"
    /\ runStatus' = "canceled"
    /\ cancelPc' = "done"
    /\ UNCHANGED <<dependsOn, stepStatus, depsRemaining, nextRunAt, attempts, now, schedPc,
                   worker, crashes, claimLog, callers, runFinished,
                   flow, dec, attemptStatus, attemptId, tables, execError, storeFailed, permits, sourceRows, provider, getter, getLog, instant, retryMaxAttempts>>

(***************************************************************************)
(* Crash of the executor process, and the resume command.                  *)
(***************************************************************************)

\* the process dies: the scheduler and every worker task stop where they are
Crash ==
    /\ crashes < MaxCrashes
    /\ schedPc \notin {"init", "done", "crashed", "reset", "refused"}
    /\ crashes' = crashes + 1
    /\ schedPc' = "crashed"
    /\ worker' = [s \in Steps |-> "none"]
    /\ UNCHANGED <<storeVars, attempts, now, cancelPc, claimLog, callers, runFinished,
                   flow, dec, attemptStatus, attemptId, tables, execError, storeFailed, permits, sourceRows, provider, getter, getLog, instant, retryMaxAttempts>>

\* resume_cmd: get_run; a run in a terminal status is refused
ResumeGetRun ==
    /\ schedPc = "crashed"
    /\ schedPc' = IF runStatus \in RunTerminal THEN "refused" ELSE "reset"
    /\ UNCHANGED <<storeVars, attempts, now, worker, cancelPc, crashes, claimLog, callers, runFinished,
                   flow, dec, attemptStatus, attemptId, tables, execError, storeFailed, permits, sourceRows, provider, getter, getLog, instant, retryMaxAttempts>>

\* resume_cmd: reset_stale_running_steps, then execute_run is called
ResumeReset ==
    /\ schedPc = "reset"
    /\ stepStatus' = ResetStatus
    /\ claimLog' = LogRelease({s \in Steps : stepStatus[s] = "running"})
    /\ schedPc' = "init"
    /\ UNCHANGED <<runStatus, dependsOn, depsRemaining, nextRunAt, attempts, now, worker,
                   cancelPc, crashes, callers, runFinished,
                   flow, dec, attemptStatus, attemptId, tables, execError, storeFailed, permits, sourceRows, provider, getter, getLog, instant, retryMaxAttempts>>

Next ==
    \/ ExecStart
    \/ ClaimSteps
    \/ CollectResults
    \/ CompleteClaim
    \/ CompleteSteps
    \/ CompleteGetRun
    \/ CompleteFinish
    \/ Sleep
    \/ Tick
    \/ \E s \in Steps : WorkerInsertAttempt(s)
    \/ \E s \in Steps : WorkerSucceed(s)
    \/ \E s \in Steps : \E delay \in 0..MaxDelay : WorkerRetry(s, delay)
    \/ \E s \in Steps : WorkerFail(s)
    \/ \E s \in Steps : WorkerEndRun(s)
    \/ Crash
    \/ ResumeGetRun
    \/ ResumeReset

Spec == Init /\ [][Next]_vars

\* the same, with the cancel command run by an operator at any time
CancelNext ==
    \/ Next
    \/ CancelGetRun
    \/ CancelMark

CancelSpec == Init /\ [][CancelNext]_vars

(***************************************************************************)
(* execute_run without crash or cancel, with the scheduling the runtime    *)
(* guarantees: the scheduler task, every spawned worker task and the clock *)
(* keep making steps.                                                      *)
(***************************************************************************)
SchedulerStep ==
    \/ ExecStart
    \/ ClaimSteps
    \/ CollectResults
    \/ CompleteClaim
    \/ CompleteSteps
    \/ CompleteGetRun
    \/ CompleteFinish
    \/ Sleep

WorkerStep(s) ==
    \/ WorkerInsertAttempt(s)
    \/ WorkerSucceed(s)
    \/ \E delay \in 0..MaxDelay : WorkerRetry(s, delay)
    \/ WorkerFail(s)
    \/ WorkerEndRun(s)

NextLive ==
    \/ SchedulerStep
    \/ Tick
    \/ \E s \in Steps : WorkerStep(s)

LiveSpec ==
    /\ Init
    /\ [][NextLive]_vars
    /\ WF_vars(SchedulerStep)
    /\ WF_vars(Tick)
    /\ \A s \in Steps : WF_vars(WorkerStep(s))

(***************************************************************************)
(* insert_attempt_auto under concurrent callers.  The statement reads      *)
(* MAX(attempt_no) in its snapshot and inserts later; the unique index on  *)
(* step_attempts(run_step_id, attempt_no) is checked at the insert.        *)
(***************************************************************************)

\* unique index step_attempts(run_step_id, attempt_no)
UniqueAttemptNo(s, no) == no \notin Range(attempts[s])

\* the statement takes its snapshot and evaluates the next_no CTE
CallerRead(c, s) ==
    /\ callers[c].pc = "idle"
    /\ Len(attempts[s]) < MaxRows
    /\ callers' = [callers EXCEPT ![c] =
                     [pc |-> "read", step |-> s, no |-> NextAttemptNo(Range(attempts[s]))]]
    /\ UNCHANGED <<storeVars, attempts, now, schedPc, worker, cancelPc, crashes, claimLog, runFinished,
                   flow, dec, attemptStatus, attemptId, tables, execError, storeFailed, permits, sourceRows, provider, getter, getLog, instant, retryMaxAttempts>>

\* the INSERT passes the unique index and commits
CallerInsert(c) ==
    /\ callers[c].pc = "read"
    /\ UniqueAttemptNo(callers[c].step, callers[c].no)
    /\ attempts' = [attempts EXCEPT ![callers[c].step] = Append(@, callers[c].no)]
    /\ callers' = [callers EXCEPT ![c].pc = "idle"]
    /\ UNCHANGED <<storeVars, now, schedPc, worker, cancelPc, crashes, claimLog, runFinished,
                   flow, dec, attemptStatus, attemptId, tables, execError, storeFailed, permits, sourceRows, provider, getter, getLog, instant, retryMaxAttempts>>

\* the INSERT hits the unique index: the statement fails, no row is added
CallerConflict(c) ==
    /\ callers[c].pc = "read"
    /\ ~UniqueAttemptNo(callers[c].step, callers[c].no)
    /\ callers' = [callers EXCEPT ![c].pc = "idle"]
    /\ UNCHANGED <<storeVars, attempts, now, schedPc, worker, cancelPc, crashes, claimLog, runFinished,
                   flow, dec, attemptStatus, attemptId, tables, execError, storeFailed, permits, sourceRows, provider, getter, getLog, instant, retryMaxAttempts>>

AttemptNext ==
    \/ \E c \in 1..NumCallers : \E s \in Steps : CallerRead(c, s)
    \/ \E c \in 1..NumCallers : CallerInsert(c)
    \/ \E c \in 1..NumCallers : CallerConflict(c)

AttemptSpec == Init /\ [][AttemptNext]_vars

(***************************************************************************)
(* Direct calls of the pure functions: decide_retry, decide_failure,       *)
(* decide_network_failure and execute_step_attempt (with the store and the *)
(* HTTP client answering as the inputs say).  dec holds the last call.     *)
(***************************************************************************)

\* RetryConfig::default().max_attempts
DefaultMaxAttempts == 5

\* the time of a call, in seconds since the epoch
CallTimes == {100}

\* values of the rand_u64 closure
Rands == {0, 1500}

Num(n) == [kind |-> "num", v |-> n]
Date(n) == [kind |-> "date", v |-> n]
Garbage == [kind |-> "garbage", v |-> 0]

\* values a response carries in Retry-After: delta-seconds (below and above
\* max_delay), an HTTP-date after and before the call, and unparseable text
StdHeaderValues == {Absent, Num(5), Num(90), Date(107), Date(93), Garbage}

\* values a response carries in the vendor header
VendorHeaderValues == {Absent, Num(3), Num(104), Date(108), Garbage}

\* the response headers the retry decider looks at
Headers(std, ven) == ("retry-after" :> std) @@ ("x-ratelimit-reset" :> ven)

HeaderMaps == {Headers(a, b) : a \in StdHeaderValues, b \in VendorHeaderValues}

\* RetryHeadersConfig.vendor_headers: none (the default) or one vendor header
VendorConfigs ==
    {<<>>} \cup {<<[name |-> "x-ratelimit-reset", kind |-> k]>> :
                    k \in {"DeltaSeconds", "UnixSeconds", "HttpDate"}}

\* calls of decide_retry: every attempt number, global limit and declared
\* limit with a few responses, and every header combination on attempt 1
DecideInputs ==
    [cfg : {RetryCfg(m, <<>>) : m \in 0..(MaxAttempts + 1)},
     attempt_no : 1..(MaxAttempts + 1),
     arazzo_retry_limit : {NULL} \cup 0..MaxRetryLimit,
     arazzo_retry_after_seconds : {NULL, 3},
     policy_failed : BOOLEAN,
     http_status : {NULL, 503, 500},
     response_headers : {{}, {Headers(Absent, Absent)}, {Headers(Num(5), Absent)}},
     network_failed : BOOLEAN,
     nowT : CallTimes,
     rand_u64 : Rands]
    \cup
    [cfg : {RetryCfg(DefaultMaxAttempts, v) : v \in VendorConfigs},
     attempt_no : {1},
     arazzo_retry_limit : {NULL, MaxRetryLimit},
     arazzo_retry_after_seconds : {NULL, 3, 90},
     policy_failed : {FALSE},
     http_status : {NULL, 503},
     response_headers : {{}} \cup {{h} : h \in HeaderMaps},
     network_failed : {TRUE},
     nowT : CallTimes,
     rand_u64 : Rands]

DecideCall ==
    /\ dec.pc = "idle"
    /\ \E in \in DecideInputs :
          dec' = [pc |-> "called", fn |-> "decide_retry", in |-> in,
                  out |-> DecideRetry(in.cfg, in.attempt_no, in.arazzo_retry_limit,
                                      in.arazzo_retry_after_seconds, in.policy_failed,
                                      in.http_status, in.response_headers,
                                      in.network_failed, in.nowT, in.rand_u64)]
    /\ UNCHANGED <<storeVars, attempts, now, schedPc, worker, cancelPc, crashes, claimLog,
                   callers, runFinished, flow, attemptStatus, attemptId, tables, execError, storeFailed, permits, sourceRows, provider, getter, getLog, instant, retryMaxAttempts>>

\* failure actions of a step: inline retry, end and goto actions, and a
\* reference to a reusable action
RetryAction(limit, after) ==
    [type |-> "retry", retry_limit |-> limit, retry_after_seconds |-> after]

OtherAction(type) == [type |-> type, retry_limit |-> NULL, retry_after_seconds |-> NULL]

FailureActions ==
    {RetryAction(NULL, NULL), RetryAction(0, NULL), RetryAction(MaxRetryLimit, 3),
     OtherAction("end"), OtherAction("goto"), OtherAction("reusable")}

\* step.on_failure: absent or empty, one action, or two
ActionLists ==
    {<<>>} \cup {<<a>> : a \in FailureActions}
           \cup {<<a, b>> : a \in FailureActions, b \in FailureActions}

\* a response within the limits of the gate
Response(status, headers) ==
    [status |-> status, headers |-> headers, headers_count |-> 2, headers_bytes |-> 64,
     body_len |-> 16]

FailureInputs ==
    [cfg : {RetryCfg(m, <<>>) : m \in {MaxAttempts, DefaultMaxAttempts}},
     actions : ActionLists,
     attempt_no : 1..(MaxAttempts + 1),
     sent : {[kind |-> "error"]} \cup
            {[kind |-> "response", resp |-> Response(st, h)] :
                st \in {500, 503},
                h \in {Headers(Absent, Absent), Headers(Num(5), Absent)}},
     nowT : CallTimes,
     rand_u64 : Rands]

\* decide_failure for a response, decide_network_failure for an error
FailureCall ==
    /\ dec.pc = "idle"
    /\ \E in \in FailureInputs :
          dec' = [pc |-> "called", fn |-> "decide_failure", in |-> in,
                  out |-> IF in.sent.kind = "error"
                          THEN DecideNetworkFailure(in.cfg, in.actions, in.attempt_no,
                                                    in.nowT, in.rand_u64)
                          ELSE DecideFailure(in.cfg, in.actions, in.attempt_no,
                                             in.sent.resp, in.nowT, in.rand_u64)]
    /\ UNCHANGED <<storeVars, attempts, now, schedPc, worker, cancelPc, crashes, claimLog,
                   callers, runFinished, flow, attemptStatus, attemptId, tables, execError, storeFailed, permits, sourceRows, provider, getter, getLog, instant, retryMaxAttempts>>

\* a built request; id names its URL
Request(id, scheme, host, private_ip, headers_count, body_len) ==
    [id |-> id, build_ok |-> TRUE, scheme |-> scheme, host |-> host,
     private_ip |-> private_ip, headers_count |-> headers_count, headers_bytes |-> 64,
     body_len |-> body_len]

\* requests a step may resolve to: one the gate allows (a subdomain of an
\* allowed host), one for each reason the gate denies, and a build error
Requests ==
    { Request(1, "https", <<"api", "example", "com">>, FALSE, 2, 16),
      Request(2, "http", <<"api", "example", "com">>, FALSE, 2, 16),
      Request(3, "https", <<"internal", "corp">>, FALSE, 2, 16),
      Request(4, "https", <<>>, FALSE, 2, 16),
      Request(5, "https", <<"10", "0", "0", "1">>, TRUE, 2, 16),
      Request(6, "https", <<"example", "com">>, FALSE, RequestMaxHeadersCount + 1, 16),
      Request(7, "https", <<"example", "com">>, FALSE, 2, RequestMaxBodyBytes + 1),
      [Request(8, "https", <<"example", "com">>, FALSE, 2, 16) EXCEPT !.build_ok = FALSE] }

\* what http.send returns: an error, or a response (success, not retryable,
\* retryable; with and without Retry-After; within and over the gate's limits)
SendOutcomes ==
    {[kind |-> "error"]} \cup
    {[kind |-> "response", resp |-> [Response(st, h) EXCEPT !.body_len = b]] :
        st \in {200, 500, 503},
        h \in {Headers(Absent, Absent), Headers(Num(5), Absent)},
        b \in {16, ResponseMaxBodyBytes + 1}}

AttemptInputs ==
    [cfg : {RetryCfg(MaxAttempts, <<>>)},
     actions : {<<>>, <<RetryAction(NULL, NULL)>>,
                <<OtherAction("end"), RetryAction(NULL, NULL)>>},
     req : Requests,
     rows : {{}, {1}},
     insert_ok : BOOLEAN,
     sent : SendOutcomes,
     nowT : CallTimes,
     rand_u64 : Rands]

\* execute_step_attempt
AttemptCall ==
    /\ dec.pc = "idle"
    /\ \E in \in AttemptInputs :
          dec' = [pc |-> "called", fn |-> "execute_step_attempt", in |-> in,
                  out |-> ExecuteStepAttempt(in.cfg, in.actions, in.req, in.rows,
                                             in.insert_ok, in.sent, in.nowT, in.rand_u64)]
    /\ UNCHANGED <<storeVars, attempts, now, schedPc, worker, cancelPc, crashes, claimLog,
                   callers, runFinished, flow, attemptStatus, attemptId, tables, execError, storeFailed, permits, sourceRows, provider, getter, getLog, instant, retryMaxAttempts>>

\* step.outputs: no outputs, outputs that evaluate, and outputs one of which
\* is an expression eval_value rejects
OutputMaps ==
    { <<>>,
      <<"$response.body#/id", "$statusCode">>,
      <<"$response.body#/id", "$message.header.x">> }

OutputInputs ==
    [cfg : {RetryCfg(MaxAttempts, <<>>)},
     actions : {<<>>, <<RetryAction(NULL, NULL)>>},
     outputs : OutputMaps,
     req : {r \in Requests : r.id \in {1, 3}},
     rows : {{}, {1}},
     insert_ok : {TRUE},
     sent : SendOutcomes,
     nowT : CallTimes,
     rand_u64 : Rands]

\* execute_step_attempt for a step with outputs
OutputsCall ==
    /\ dec.pc = "idle"
    /\ \E in \in OutputInputs :
          dec' = [pc |-> "called", fn |-> "execute_step_attempt", in |-> in,
                  out |-> ExecuteStepAttemptOutputs(in.cfg, in.actions, in.outputs, in.req,
                                                    in.rows, in.insert_ok, in.sent,
                                                    in.nowT, in.rand_u64)]
    /\ UNCHANGED <<storeVars, attempts, now, schedPc, worker, cancelPc, crashes, claimLog,
                   callers, runFinished, flow, attemptStatus, attemptId, tables,
                   execError, storeFailed, permits, sourceRows, provider, getter, getLog, instant, retryMaxAttempts>>

\* the call has returned
CallReturn ==
    /\ dec.pc = "called"
    /\ dec' = DecIdle
    /\ UNCHANGED <<storeVars, attempts, now, schedPc, worker, cancelPc, crashes, claimLog,
                   callers, runFinished, flow, attemptStatus, attemptId, tables, execError, storeFailed, permits, sourceRows, provider, getter, getLog, instant, retryMaxAttempts>>

UnitNext ==
    \/ DecideCall
    \/ FailureCall
    \/ AttemptCall
    \/ OutputsCall
    \/ CallReturn

UnitSpec == Init /\ [][UnitNext]_vars

(***************************************************************************)
(* The worker task in detail: run_step = execute_step_attempt followed by  *)
(* apply_result, with the events emitted and the calls made, under the     *)
(* scheduler of execute_run.  Times are in milliseconds here.              *)
(***************************************************************************)

\* step.on_failure of the three steps of the workflow: a retry action
\* without parameters, a retry action with a limit and retryAfter, none
OnFailure(s) ==
    IF s = 1 THEN <<RetryAction(NULL, NULL)>>
    ELSE IF s = 2 THEN <<RetryAction(MaxRetryLimit, 3)>>
    ELSE <<>>

\* the requests and the answers of the HTTP client in WorkerSpec: an allowed
\* request, a denied scheme, a denied host, a build error; a network error,
\* success, a status that is not retryable, a retryable status without and
\* with Retry-After, and a response over the gate's limits
WorkerRequests == {r \in Requests : r.id \in {1, 2, 3, 8}}

WorkerOutcomes ==
    { [kind |-> "error"],
      [kind |-> "response", resp |-> Response(200, Headers(Absent, Absent))],
      [kind |-> "response", resp |-> Response(500, Headers(Absent, Absent))],
      [kind |-> "response", resp |-> Response(503, Headers(Absent, Absent))],
      [kind |-> "response", resp |-> Response(503, Headers(Num(5), Absent))],
      [kind |-> "response",
       resp |-> [Response(200, Headers(Absent, Absent))
                    EXCEPT !.body_len = ResponseMaxBodyBytes + 1]] }

\* run_step up to the return of execute_step_attempt: StepStarted is emitted
\* and the attempt is made; the row insert_attempt_auto adds is in attempts
FlowAttempt(s) ==
    /\ worker[s] = "start"
    /\ flow[s].pc = "idle"
    /\ \E req \in WorkerRequests, sent \in WorkerOutcomes,
          nowT \in CallTimes, rand_u64 \in Rands :
          LET r == ExecuteStepAttempt(RetryCfg(retryMaxAttempts, <<>>), OnFailure(s), req,
                                      Range(attempts[s]), TRUE, sent, nowT, rand_u64)
          IN  /\ attempts' = IF r.attempt_no = NULL THEN attempts
                             ELSE [attempts EXCEPT ![s] = Append(@, r.attempt_no)]
              /\ flow' = [flow EXCEPT ![s] =
                            [pc |-> "apply", req |-> req, result |-> r.result,
                             trace |-> <<Ev("step.started", 0)>> \o r.trace]]
    /\ UNCHANGED <<storeVars, now, schedPc, worker, cancelPc, crashes, claimLog, callers,
                   runFinished, dec, attemptStatus, attemptId, tables, execError, storeFailed, permits, sourceRows, provider, getter, getLog, instant, retryMaxAttempts>>

\* schedule_retry that leaves next_run_at at the current time
ScheduleRetryNow(s, delay_ms) == [nextRunAt EXCEPT ![s] = now]

\* schedule_retry: next_run_at = now() + delay_ms milliseconds
ScheduleRetry(s, delay_ms) == [nextRunAt EXCEPT ![s] = now + delay_ms]

\* apply_result: the store call for the result and the event after it
FlowApply(s) ==
    /\ flow[s].pc = "apply"
    /\ LET r == flow[s].result
       IN  \/ /\ r.kind = "Succeeded"
              /\ stepStatus' = SucceededStatus(s)
              /\ depsRemaining' = SucceededDeps(s)
              /\ flow' = [flow EXCEPT ![s].pc = "returned",
                                      ![s].trace = @ \o << Ev("mark_step_succeeded", 0),
                                                           Ev("step.succeeded", 0) >>]
              /\ UNCHANGED <<nextRunAt, claimLog>>
           \/ /\ r.kind = "Retry"
              /\ stepStatus' = [stepStatus EXCEPT ![s] = "pending"]
              /\ nextRunAt' = ScheduleRetry(s, r.delay_ms)
              /\ claimLog' = LogRelease({s})
              /\ flow' = [flow EXCEPT ![s].pc = "returned",
                                      ![s].trace = @ \o << Ev("schedule_retry", r.delay_ms),
                                                           Ev("step.retry_scheduled", r.delay_ms) >>]
              /\ UNCHANGED depsRemaining
           \/ /\ r.kind = "Failed"
              /\ stepStatus' = FailedStatus(s)
              /\ flow' = [flow EXCEPT ![s].pc = IF r.end_run THEN "end_run" ELSE "returned",
                                      ![s].trace = @ \o << Ev("mark_step_failed", 0),
                                                           Ev("step.failed", 0) >>]
              /\ UNCHANGED <<depsRemaining, nextRunAt, claimLog>>
    /\ UNCHANGED <<runStatus, dependsOn, attempts, now, schedPc, worker, cancelPc, crashes,
                   callers, runFinished, dec, attemptStatus, attemptId, tables, execError, storeFailed, permits, sourceRows, provider, getter, getLog, instant, retryMaxAttempts>>

\* apply_result, end_run: mark_run_finished(Failed)
FlowEndRun(s) ==
    /\ flow[s].pc = "end_run"
    /\ runStatus' = "failed"
    /\ flow' = [flow EXCEPT ![s].pc = "returned",
                            ![s].trace = @ \o << Ev("mark_run_finished", 0) >>]
    /\ UNCHANGED <<dependsOn, stepStatus, depsRemaining, nextRunAt, attempts, now, schedPc,
                   worker, cancelPc, crashes, claimLog, callers, runFinished, dec, attemptStatus, attemptId, tables, execError, storeFailed, permits, sourceRows, provider, getter, getLog, instant, retryMaxAttempts>>

\* run_step returns its result: the task's JoinHandle completes
FlowReturn(s) ==
    /\ flow[s].pc = "returned"
    /\ flow' = [flow EXCEPT ![s] = FlowIdle]
    /\ worker' = [worker EXCEPT ![s] = "none"]
    /\ UNCHANGED <<storeVars, attempts, now, schedPc, cancelPc, crashes, claimLog, callers,
                   runFinished, dec, attemptStatus, attemptId, tables, execError, storeFailed, permits, sourceRows, provider, getter, getLog, instant, retryMaxAttempts>>

\* the database clock reaches the earliest next_run_at that is still in the
\* future (earlier instants are not distinguishable by any query)
ClockReachesDue ==
    /\ \E s \in Steps : nextRunAt[s] # NULL /\ nextRunAt[s] > now
    /\ now' = CHOOSE d \in {nextRunAt[s] : s \in Steps} :
                 /\ d > now
                 /\ \A s \in Steps : nextRunAt[s] > now => d <= nextRunAt[s]
    /\ UNCHANGED <<storeVars, attempts, schedPc, worker, cancelPc, crashes, claimLog, callers,
                   runFinished, flow, dec, attemptStatus, attemptId, tables, execError, storeFailed, permits, sourceRows, provider, getter, getLog, instant, retryMaxAttempts>>

WorkerNext ==
    \/ SchedulerStep
    \/ ClockReachesDue
    \/ \E s \in Steps : FlowAttempt(s)
    \/ \E s \in Steps : FlowApply(s)
    \/ \E s \in Steps : FlowEndRun(s)
    \/ \E s \in Steps : FlowReturn(s)

WorkerSpec == Init /\ [][WorkerNext]_vars

\* the worker under the scheduler for every retry.max_attempts the
\* configuration accepts (--retry-max-attempts takes any usize)
RetrySpec == RetryInit /\ [][WorkerNext]_vars

(***************************************************************************)
(* Crash and resume with the scheduling the runtime guarantees: after a    *)
(* crash the operator runs the resume command, which runs to its end.      *)
(***************************************************************************)
ResumeStep ==
    \/ ResumeGetRun
    \/ ResumeReset

ResumeNext ==
    \/ NextLive
    \/ Crash
    \/ ResumeStep

ResumeSpec ==
    /\ Init
    /\ [][ResumeNext]_vars
    /\ WF_vars(SchedulerStep)
    /\ WF_vars(Tick)
    /\ \A s \in Steps : WF_vars(WorkerStep(s))
    /\ WF_vars(ResumeStep)

(***************************************************************************)
(* Attempt rows across crash and resume: the workers write the status of   *)
(* the attempt row they inserted (finish_attempt) before apply_result.     *)
(***************************************************************************)

\* the UPDATE with "WHERE run_step_id = ... AND status = 'running'" instead
FinishRunningAttempts(s, attempt_id, status) ==
    [attemptStatus EXCEPT ![s] =
        [i \in DOMAIN @ |-> IF @[i] = "running" THEN status ELSE @[i]]]

\* finish_attempt: UPDATE step_attempts SET status = $2 ... WHERE id = $1
FinishAttempt(s, attempt_id, status) ==
    [attemptStatus EXCEPT ![s][attempt_id] = status]

\* execute_step_attempt: insert_attempt_auto inserts a row in status running
\* and returns its id; then the request is sent
RowInsert(s) ==
    /\ worker[s] = "start"
    /\ attempts' = [attempts EXCEPT ![s] = Append(@, NextAttemptNo(Range(@)))]
    /\ attemptStatus' = [attemptStatus EXCEPT ![s] = Append(@, "running")]
    /\ attemptId' = [attemptId EXCEPT ![s] = Len(attempts[s]) + 1]
    /\ worker' = [worker EXCEPT ![s] = "sent"]
    /\ UNCHANGED <<storeVars, now, schedPc, cancelPc, crashes, claimLog, callers,
                   runFinished, flow, dec, tables, execError, storeFailed, permits, sourceRows, provider, getter, getLog, instant, retryMaxAttempts>>

\* execute_step_attempt: the response (or the network error) is in and
\* finish_attempt records it on the row the worker inserted
RowFinish(s, status) ==
    /\ worker[s] = "sent"
    /\ attemptStatus' = FinishAttempt(s, attemptId[s], status)
    /\ worker' = [worker EXCEPT ![s] = IF status = "succeeded" THEN "attempt_succeeded"
                                        ELSE "attempt_failed"]
    /\ UNCHANGED <<storeVars, attempts, now, schedPc, cancelPc, crashes, claimLog,
                   callers, runFinished, flow, dec, attemptId, tables, execError, storeFailed, permits, sourceRows, provider, getter, getLog, instant, retryMaxAttempts>>

\* apply_result, Succeeded: mark_step_succeeded
RowSucceed(s) ==
    /\ worker[s] = "attempt_succeeded"
    /\ stepStatus' = SucceededStatus(s)
    /\ depsRemaining' = SucceededDeps(s)
    /\ worker' = [worker EXCEPT ![s] = "none"]
    /\ UNCHANGED <<runStatus, dependsOn, nextRunAt, attempts, now, schedPc, cancelPc,
                   crashes, claimLog, callers, runFinished, flow, dec,
                   attemptStatus, attemptId, tables, execError, storeFailed, permits, sourceRows, provider, getter, getLog, instant, retryMaxAttempts>>

\* apply_result, Retry: schedule_retry(delay)
RowRetry(s, delay) ==
    /\ worker[s] = "attempt_failed"
    /\ RetryAllowed(attempts[s][attemptId[s]])
    /\ now + delay <= MaxTime
    /\ stepStatus' = [stepStatus EXCEPT ![s] = "pending"]
    /\ nextRunAt' = [nextRunAt EXCEPT ![s] = now + delay]
    /\ claimLog' = LogRelease({s})
    /\ worker' = [worker EXCEPT ![s] = "none"]
    /\ UNCHANGED <<runStatus, dependsOn, depsRemaining, attempts, now, schedPc, cancelPc,
                   crashes, callers, runFinished, flow, dec, attemptStatus, attemptId, tables, execError, storeFailed, permits, sourceRows, provider, getter, getLog, instant, retryMaxAttempts>>

\* apply_result, Failed: mark_step_failed (after a failed attempt, or after a
\* build or policy error with no attempt row)
RowFail(s) ==
    /\ worker[s] \in {"start", "attempt_failed"}
    /\ stepStatus' = FailedStatus(s)
    /\ worker' = [worker EXCEPT ![s] = "failed"]
    /\ UNCHANGED <<runStatus, dependsOn, depsRemaining, nextRunAt, attempts, now, schedPc,
                   cancelPc, crashes, claimLog, callers, runFinished, flow, dec,
                   attemptStatus, attemptId, tables, execError, storeFailed, permits, sourceRows, provider, getter, getLog, instant, retryMaxAttempts>>

RowStep(s) ==
    \/ RowInsert(s)
    \/ RowFinish(s, "succeeded")
    \/ RowFinish(s, "failed")
    \/ RowSucceed(s)
    \/ \E delay \in 0..MaxDelay : RowRetry(s, delay)
    \/ RowFail(s)
    \/ WorkerEndRun(s)

CrashNext ==
    \/ SchedulerStep
    \/ Tick
    \/ \E s \in Steps : RowStep(s)
    \/ Crash
    \/ ResumeGetRun
    \/ ResumeReset

\* a run whose third step depends on the two others
CrashInit ==
    /\ Init
    /\ dependsOn = [s \in Steps |-> IF s = 3 THEN {1, 2} ELSE {}]

CrashSpec == CrashInit /\ [][CrashNext]_vars

(***************************************************************************)
(* Creating runs (arazzo-store/src/postgres/runs.rs).  A row's id is its   *)
(* position in its table; create_run is one transaction.                   *)
(***************************************************************************)

\* Option::None of created_by and idempotency_key (SQL NULL)
None == "None"

\* Result<Uuid, StoreError> of a store call
Ok(id) == [ok |-> TRUE, id |-> id]
Err == [ok |-> FALSE, id |-> 0]

\* the row of workflow_runs with this (created_by, idempotency_key), or 0
ExistingRun(rows, run) ==
    IF \E i \in DOMAIN rows : /\ rows[i].created_by = run.created_by
                              /\ rows[i].idempotency_key = run.idempotency_key
    THEN CHOOSE i \in DOMAIN rows : /\ rows[i].created_by = run.created_by
                                    /\ rows[i].idempotency_key = run.idempotency_key
    ELSE 0

\* insert_run: with both created_by and idempotency_key given, INSERT ... ON
\* CONFLICT (created_by, idempotency_key) DO NOTHING RETURNING id and, when
\* nothing was inserted, SELECT id of the existing row; otherwise a plain
\* INSERT
InsertRun(rows, run) ==
    IF /\ run.created_by # None
       /\ run.idempotency_key # None
       /\ ExistingRun(rows, run) # 0
    THEN [rows |-> rows, id |-> ExistingRun(rows, run)]
    ELSE [rows |-> Append(rows, [created_by |-> run.created_by,
                                 idempotency_key |-> run.idempotency_key,
                                 status |-> "queued"]),
          id |-> Len(rows) + 1]

\* the rows create_run inserts into run_steps for the run run_id
NewStepRows(run_id, steps) ==
    [i \in DOMAIN steps |->
        [run_id |-> run_id, step_id |-> steps[i].step_id, status |-> "pending",
         depends_on |-> steps[i].depends_on,
         deps_remaining |-> Cardinality(steps[i].depends_on)]]

\* no two rows of run_steps have the same (run_id, step_id)
StepKeyUnique(rows) ==
    \A i, j \in DOMAIN rows :
        (rows[i].run_id = rows[j].run_id /\ rows[i].step_id = rows[j].step_id) => i = j

\* create_run: insert_run, one INSERT per step, one INSERT ... ON CONFLICT DO
\* NOTHING per edge, commit.  unique_step_key says whether the schema has
\* the unique constraint run_steps(run_id, step_id): with it an INSERT of an
\* existing key fails and the transaction is rolled back
CreateRun(tb, run, steps, edges, unique_step_key) ==
    LET ins == InsertRun(tb.workflow_runs, run)
        stepRows == tb.run_steps \o NewStepRows(ins.id, steps)
        edgeRows == tb.run_step_edges \cup
                        {[run_id |-> ins.id, from_step_id |-> e[1], to_step_id |-> e[2]] :
                            e \in edges}
    IN  IF unique_step_key /\ ~StepKeyUnique(stepRows)
        THEN [tables |-> tb, result |-> Err]
        ELSE [tables |-> [tb EXCEPT !.workflow_runs = ins.rows,
                                     !.run_steps = stepRows,
                                     !.run_step_edges = edgeRows],
              result |-> Ok(ins.id)]

Creators == {"alice"}
IdempotencyKeys == {"k1", "k2"}

NewRuns == [created_by : Creators \cup {None}, idempotency_key : IdempotencyKeys \cup {None}]

NewStep(step_id, depends_on) == [step_id |-> step_id, depends_on |-> depends_on]

\* the steps of the workflows a run is created from
StepLists ==
    { <<>>,
      <<NewStep("a", {})>>,
      <<NewStep("a", {}), NewStep("b", {"a"})>> }

\* the edges the callers derive from depends_on
EdgesOf(steps) ==
    UNION {{<<d, steps[i].step_id>> : d \in steps[i].depends_on} : i \in DOMAIN steps}

\* create_run_and_steps is called and returns
CreateRunCall ==
    \E run \in NewRuns, steps \in StepLists, unique_step_key \in BOOLEAN :
        LET r == CreateRun(tables, run, steps, EdgesOf(steps), unique_step_key)
        IN  /\ unique_step_key => StepKeyUnique(tables.run_steps)
            /\ Len(r.tables.workflow_runs) <= MaxRunRows
            /\ Len(r.tables.run_steps) <= MaxStepRows
            /\ tables' = r.tables
            /\ dec' = [pc |-> "called", fn |-> "create_run_and_steps",
                       in |-> [run |-> run, steps |-> steps,
                               unique_step_key |-> unique_step_key],
                       out |-> r.result]
            /\ UNCHANGED <<storeVars, attempts, now, schedPc, worker, cancelPc, crashes,
                           claimLog, callers, runFinished, flow, attemptStatus, attemptId, execError, storeFailed, permits, sourceRows, provider, getter, getLog, instant, retryMaxAttempts>>

RunNext == CreateRunCall

RunSpec == Init /\ [][RunNext]_vars

(***************************************************************************)
(* Storing workflow documents (arazzo-store/src/postgres/events.rs).       *)
(***************************************************************************)

\* the row of workflow_docs with this doc_hash, or 0
ExistingDoc(rows, doc_hash) ==
    IF \E i \in DOMAIN rows : rows[i].doc_hash = doc_hash
    THEN CHOOSE i \in DOMAIN rows : rows[i].doc_hash = doc_hash
    ELSE 0

\* upsert_workflow_doc: INSERT ... ON CONFLICT (doc_hash) DO UPDATE SET
\* format = EXCLUDED.format, raw = EXCLUDED.raw, doc = EXCLUDED.doc
\* RETURNING the row
UpsertWorkflowDoc(rows, doc) ==
    LET i == ExistingDoc(rows, doc.doc_hash)
    IN  IF i = 0
        THEN [rows |-> Append(rows, doc), id |-> Len(rows) + 1, row |-> doc]
        ELSE [rows |-> [rows EXCEPT ![i] = doc], id |-> i, row |-> doc]

DocFormats == {"yaml", "json"}
\* JSON projections of a parsed document
DocValues == {"d1", "d2"}

\* NewWorkflowDoc: doc_hash is the SHA-256 of raw, so raw is the one text
\* with that hash; format and doc are the caller's
NewWorkflowDocs ==
    {[doc_hash |-> h, format |-> f, raw |-> h, doc |-> d] :
        h \in 1..MaxDocs, f \in DocFormats, d \in DocValues}

\* upsert_workflow_doc is called and returns
UpsertCall ==
    \E doc \in NewWorkflowDocs :
        LET r == UpsertWorkflowDoc(tables.workflow_docs, doc)
        IN  /\ tables' = [tables EXCEPT !.workflow_docs = r.rows]
            /\ dec' = [pc |-> "called", fn |-> "upsert_workflow_doc", in |-> doc,
                       out |-> [id |-> r.id, row |-> r.row]]
            /\ UNCHANGED <<storeVars, attempts, now, schedPc, worker, cancelPc, crashes,
                           claimLog, callers, runFinished, flow, attemptStatus, attemptId, execError, storeFailed, permits, sourceRows, provider, getter, getLog, instant, retryMaxAttempts>>

DocNext == UpsertCall

DocSpec == Init /\ [][DocNext]_vars

(***************************************************************************)
(* execute_run with failing store calls and with steps that have no        *)
(* compiled operation: what the scheduler and the workers do with each     *)
(* error.                                                                  *)
(***************************************************************************)

\* steps that target a workflowId: compile_workflow gives them no operation.
\* The workflow whose last step joins the two others has a sub-workflow call
\* as that step; the steps of the other workflows all have an operation
SubWorkflowSteps == {s \in Steps : dependsOn[s] = {1, 2}}

\* one more store call may return an error
StoreMayFail == Cardinality(storeFailed) < MaxStoreErrors

\* mark_run_started fails: execute_run drops the error ("let _ =")
ExecStartErr ==
    /\ schedPc = "init"
    /\ StoreMayFail
    /\ storeFailed' = storeFailed \cup {"mark_run_started"}
    /\ schedPc' = "claim"
    /\ UNCHANGED <<storeVars, attempts, now, worker, cancelPc, crashes, claimLog, callers,
                   runFinished, flow, dec, attemptStatus, attemptId, tables, execError, permits, sourceRows, provider, getter, getLog, instant, retryMaxAttempts>>

\* claim_steps, then spawn_steps: the rows are looked up one after the other
\* (in the order the UPDATE returned them) and a task is spawned for each;
\* the first row without a compiled operation makes spawn_steps, and with it
\* execute_run, return MissingOperation, the rows before it keep their tasks
ClaimSpawn ==
    /\ schedPc = "claim"
    /\ LET rows == Picked(GlobalConcurrency)
       IN  /\ stepStatus' = ClaimUpdate(rows)
           /\ claimLog' = LogClaim(rows)
           /\ IF rows \cap SubWorkflowSteps = {}
              THEN /\ worker' = [s \in Steps |-> IF s \in rows THEN "start" ELSE worker[s]]
                   /\ schedPc' = IF rows = {} THEN "complete" ELSE "await"
                   /\ UNCHANGED execError
              ELSE /\ \E spawned \in SUBSET (rows \ SubWorkflowSteps) :
                        worker' = [s \in Steps |-> IF s \in spawned THEN "start" ELSE worker[s]]
                   /\ schedPc' = "done"
                   /\ execError' = "MissingOperation"
    /\ UNCHANGED <<runStatus, dependsOn, depsRemaining, nextRunAt, attempts, now,
                   cancelPc, crashes, callers, runFinished, flow, dec, attemptStatus,
                   attemptId, tables, storeFailed, permits, sourceRows, provider, getter, getLog, instant, retryMaxAttempts>>

\* claim_runnable_steps or get_run_steps fails in claim_steps or in
\* is_run_complete: the error is returned with "?"
SchedulerStoreErr ==
    /\ schedPc \in {"claim", "complete", "complete_steps"}
    /\ StoreMayFail
    /\ storeFailed' = storeFailed \cup
          {IF schedPc = "complete_steps" THEN "get_run_steps" ELSE "claim_runnable_steps"}
    /\ execError' = "Store"
    /\ schedPc' = "done"
    /\ UNCHANGED <<storeVars, attempts, now, worker, cancelPc, crashes, claimLog, callers,
                   runFinished, flow, dec, attemptStatus, attemptId, tables, permits, sourceRows, provider, getter, getLog, instant, retryMaxAttempts>>

\* is_run_complete: get_run or mark_run_finished fails; the error is dropped,
\* is_run_complete returns true and execute_run emits RunFinished(Succeeded)
\* and returns Ok
CompleteStoreErr ==
    /\ schedPc \in {"complete_run", "complete_finish"}
    /\ StoreMayFail
    /\ storeFailed' = storeFailed \cup
          {IF schedPc = "complete_run" THEN "get_run" ELSE "mark_run_finished"}
    /\ runFinished' = runFinished \cup {"succeeded"}
    /\ schedPc' = "done"
    /\ UNCHANGED <<storeVars, attempts, now, worker, cancelPc, crashes, claimLog, callers,
                   flow, dec, attemptStatus, attemptId, tables, execError, permits, sourceRows, provider, getter, getLog, instant, retryMaxAttempts>>

\* run_step with insert_attempt_auto failing: execute_step_attempt returns
\* Failed{type: store, end_run: true}
FlowAttemptStoreErr(s) ==
    /\ worker[s] = "start"
    /\ flow[s].pc = "idle"
    /\ StoreMayFail
    /\ storeFailed' = storeFailed \cup {"insert_attempt_auto"}
    /\ \E req \in {r \in WorkerRequests : r.id = 1}, sent \in WorkerOutcomes,
          nowT \in CallTimes, rand_u64 \in Rands :
          LET r == ExecuteStepAttempt(RetryCfg(retryMaxAttempts, <<>>), OnFailure(s), req,
                                      Range(attempts[s]), FALSE, sent, nowT, rand_u64)
          IN  flow' = [flow EXCEPT ![s] =
                          [pc |-> "apply", req |-> req, result |-> r.result,
                           trace |-> <<Ev("step.started", 0)>> \o r.trace]]
    /\ UNCHANGED <<storeVars, attempts, now, schedPc, worker, cancelPc, crashes, claimLog,
                   callers, runFinished, dec, attemptStatus, attemptId, tables, execError, permits, sourceRows, provider, getter, getLog, instant, retryMaxAttempts>>

\* apply_result with its store call failing: the error is dropped (".ok()"),
\* the row is left as it is and the event is emitted all the same
FlowApplyStoreErr(s) ==
    /\ flow[s].pc = "apply"
    /\ StoreMayFail
    /\ LET r == flow[s].result
           call == IF r.kind = "Succeeded" THEN "mark_step_succeeded"
                   ELSE IF r.kind = "Retry" THEN "schedule_retry" ELSE "mark_step_failed"
           event == IF r.kind = "Succeeded" THEN "step.succeeded"
                    ELSE IF r.kind = "Retry" THEN "step.retry_scheduled" ELSE "step.failed"
       IN  /\ storeFailed' = storeFailed \cup {call}
           /\ flow' = [flow EXCEPT
                         ![s].pc = IF r.kind = "Failed" /\ r.end_run THEN "end_run"
                                   ELSE "returned",
                         ![s].trace = @ \o << Ev(call, 0), Ev(event, 0) >>]
    /\ UNCHANGED <<storeVars, attempts, now, schedPc, worker, cancelPc, crashes, claimLog,
                   callers, runFinished, dec, attemptStatus, attemptId, tables, execError, permits, sourceRows, provider, getter, getLog, instant, retryMaxAttempts>>

ErrorNext ==
    \/ ExecStart
    \/ ExecStartErr
    \/ ClaimSpawn
    \/ CollectResults
    \/ CompleteClaim
    \/ CompleteSteps
    \/ CompleteGetRun
    \/ CompleteFinish
    \/ Sleep
    \/ SchedulerStoreErr
    \/ CompleteStoreErr
    \/ ClockReachesDue
    \/ \E s \in Steps : FlowAttempt(s)
    \/ \E s \in Steps : FlowAttemptStoreErr(s)
    \/ \E s \in Steps : FlowApply(s)
    \/ \E s \in Steps : FlowApplyStoreErr(s)
    \/ \E s \in Steps : FlowEndRun(s)
    \/ \E s \in Steps : FlowReturn(s)

ErrorSpec == Init /\ [][ErrorNext]_vars

(***************************************************************************)
(* PermitSpec: the ConcurrencyLimits of one execute_run call.  The step    *)
(* rows are written by a command, the scheduler claims at most             *)
(* global_concurrency of them per round, acquires a permit for each        *)
(* claimed row in its spawn loop and hands it to the step's task, which    *)
(* drops it when it returns.                                               *)
(***************************************************************************)

\* ExecutorConfig.per_source_concurrency: the limit of the one listed source
PerSourceLimit == 1

PerSourceConcurrency == [api1 |-> PerSourceLimit]

\* the sources a step's operation can resolve to: one listed, one not
PermitSources == {"api1", "api2"}

\* the callers of create_run_and_steps
RowWriters == {"execute_cmd", "start_cmd", "library"}

\* NewStep.source_name as each caller fills it: both commands write None
StepSourceName(writer, resolved) == IF writer \in {"execute_cmd", "start_cmd"} THEN None ELSE resolved

\* ConcurrencyLimits::acquire, first await: a permit of the global semaphore is free
GlobalAvailable == Cardinality({s \in Steps : permits[s] \in {"global", "held"}}) < GlobalConcurrency

\* the tasks holding a permit of the semaphore of source name src
SourceHolders(src) == {s \in Steps : permits[s] = "held" /\ sourceRows[s].source_name = src}

\* ConcurrencyLimits::acquire, second await: None and unlisted names take no permit
SourceAvailable(source_name) == source_name \in DOMAIN PerSourceConcurrency => Cardinality(SourceHolders(source_name)) < PerSourceConcurrency[source_name]

\* the command writes one row per step of the plan
PermitCreateRows ==
    /\ sourceRows = <<>>
    /\ \E writer \in RowWriters, resolved \in [Steps -> PermitSources] :
          sourceRows' = [s \in Steps |-> [resolved |-> resolved[s], source_name |-> StepSourceName(writer, resolved[s])]]
    /\ UNCHANGED <<runStatus, dependsOn, stepStatus, depsRemaining, nextRunAt, attempts, now, schedPc, worker, cancelPc, crashes, claimLog, callers, runFinished, flow, dec, attemptStatus, attemptId, tables, execError, storeFailed, permits, provider, getter, getLog, instant, retryMaxAttempts>>

\* claim_steps: at most global_concurrency rows, lowest step_index first,
\* once the tasks of the round before have all been collected
PermitClaim ==
    /\ sourceRows # <<>>
    /\ \A s \in Steps : permits[s] \in {"none", "released"}
    /\ \E s \in Steps : permits[s] = "none"
    /\ LET pending == {s \in Steps : permits[s] = "none"}
           picked == {s \in pending : Cardinality({t \in pending : t < s}) < GlobalConcurrency}
       IN  permits' = [s \in Steps |-> IF s \in picked THEN "claimed" ELSE permits[s]]
    /\ UNCHANGED <<runStatus, dependsOn, stepStatus, depsRemaining, nextRunAt, attempts, now, schedPc, worker, cancelPc, crashes, claimLog, callers, runFinished, flow, dec, attemptStatus, attemptId, tables, execError, storeFailed, sourceRows, provider, getter, getLog, instant, retryMaxAttempts>>

\* spawn_steps, limits.acquire: the global permit for the next claimed row
PermitAcquireGlobal(s) ==
    /\ permits[s] = "claimed"
    /\ \A t \in Steps : permits[t] # "global"
    /\ GlobalAvailable
    /\ permits' = [permits EXCEPT ![s] = "global"]
    /\ UNCHANGED <<runStatus, dependsOn, stepStatus, depsRemaining, nextRunAt, attempts, now, schedPc, worker, cancelPc, crashes, claimLog, callers, runFinished, flow, dec, attemptStatus, attemptId, tables, execError, storeFailed, sourceRows, provider, getter, getLog, instant, retryMaxAttempts>>

\* spawn_steps, limits.acquire: the permit of the row's source_name, then
\* tokio::spawn(run_step(ctx, deps, permit))
PermitAcquireSource(s) ==
    /\ permits[s] = "global"
    /\ SourceAvailable(sourceRows[s].source_name)
    /\ permits' = [permits EXCEPT ![s] = "held"]
    /\ UNCHANGED <<runStatus, dependsOn, stepStatus, depsRemaining, nextRunAt, attempts, now, schedPc, worker, cancelPc, crashes, claimLog, callers, runFinished, flow, dec, attemptStatus, attemptId, tables, execError, storeFailed, sourceRows, provider, getter, getLog, instant, retryMaxAttempts>>

\* run_step returns: its ConcurrencyPermit is dropped
PermitRelease(s) ==
    /\ permits[s] = "held"
    /\ permits' = [permits EXCEPT ![s] = "released"]
    /\ UNCHANGED <<runStatus, dependsOn, stepStatus, depsRemaining, nextRunAt, attempts, now, schedPc, worker, cancelPc, crashes, claimLog, callers, runFinished, flow, dec, attemptStatus, attemptId, tables, execError, storeFailed, sourceRows, provider, getter, getLog, instant, retryMaxAttempts>>

PermitNext ==
    \/ PermitCreateRows
    \/ PermitClaim
    \/ \E s \in Steps : PermitAcquireGlobal(s)
    \/ \E s \in Steps : PermitAcquireSource(s)
    \/ \E s \in Steps : PermitRelease(s)

PermitSpec == Init /\ [][PermitNext]_vars

(***************************************************************************)
(* CacheSpec: CachingProvider.  Callers run get concurrently; every lock   *)
(* scope of get is one step, and the statements between two lock scopes    *)
(* (dropping the guard, creating the Notified future, the inner get, the   *)
(* notify_waiters call) are steps of their own.                            *)
(***************************************************************************)

\* CacheConfig.max_entries ranges over 0 .. MaxEntries
MaxEntries == 2

\* CacheConfig.ttl ranges over 1 .. MaxTtl ticks of the clock
MaxTtl == 2

\* get calls made in one behaviour
MaxGets == 4

\* the clock stops at MaxInstant
MaxInstant == 2

SecretRefs == {"a", "b", "c"}

\* the inner provider's get returns Ok(value) or Err
InnerOutcomes == BOOLEAN

CacheConfigs == [ttl : 1 .. MaxTtl, max_entries : 0 .. MaxEntries]

\* the get with "Instant::now() <= entry.expires_at" on its fast path
HitAtExpiry(secret_ref) == \E e \in provider.cache : e.ref = secret_ref /\ instant <= e.expires_at

\* get, fast path: the entry of secret_ref is cached and Instant::now() < expires_at
Hit(secret_ref) == \E e \in provider.cache : e.ref = secret_ref /\ instant < e.expires_at

CachedValue(secret_ref) == (CHOOSE e \in provider.cache : e.ref = secret_ref).value

\* entry.last_accessed = Instant::now()
Touch(cache, secret_ref) == {IF e.ref = secret_ref THEN [e EXCEPT !.last_accessed = instant] ELSE e : e \in cache}

\* cache.insert(secret_ref, CacheEntry{value, expires_at: now + ttl, last_accessed: now})
CacheInsert(cache, secret_ref, value) == {e \in cache : e.ref # secret_ref} \cup {[ref |-> secret_ref, value |-> value, expires_at |-> instant + provider.config.ttl, last_accessed |-> instant]}

\* min_by_key(last_accessed): the iteration order of the map breaks ties
Oldest(cache) == {e \in cache : \A f \in cache : e.last_accessed <= f.last_accessed}

RECURSIVE EvictLeastRecentlyUsed(_, _)
\* enforce_capacity, the while loop: the caches it can leave
EvictLeastRecentlyUsed(cache, max_entries) == IF Cardinality(cache) < max_entries \/ cache = {} THEN {cache} ELSE UNION {EvictLeastRecentlyUsed(cache \ {e}, max_entries) : e \in Oldest(cache)}

\* enforce_capacity: the caches it can leave
EnforceCapacity(cache, max_entries) == IF Cardinality(cache) < max_entries THEN {cache} ELSE EvictLeastRecentlyUsed({e \in cache : e.expires_at > instant}, max_entries)

\* the get calls for secret_ref that have not returned
InProgress(secret_ref) == {i \in DOMAIN getLog : ~getLog[i].done /\ getLog[i].ref = secret_ref}

\* the value of the entry of secret_ref that is cached and expired (0: none)
StaleValue(secret_ref) == IF \E e \in provider.cache : e.ref = secret_ref /\ ~(instant < e.expires_at) THEN CachedValue(secret_ref) ELSE 0

LogBegin(secret_ref, hit) == Append(getLog, [ref |-> secret_ref, miss |-> ~hit, stale |-> StaleValue(secret_ref), during |-> InProgress(secret_ref), inner |-> {}, done |-> hit, ok |-> hit, value |-> IF hit THEN CachedValue(secret_ref) ELSE 0])

LogReturn(call, ok, value) == [getLog EXCEPT ![call].done = TRUE, ![call].ok = ok, ![call].value = value]

\* CachingProvider::new
CacheNew ==
    /\ ~provider.built
    /\ \E config \in CacheConfigs : provider' = [provider EXCEPT !.built = TRUE, !.config = config]
    /\ UNCHANGED <<runStatus, dependsOn, stepStatus, depsRemaining, nextRunAt, attempts, now, schedPc, worker, cancelPc, crashes, claimLog, callers, runFinished, flow, dec, attemptStatus, attemptId, tables, execError, storeFailed, permits, sourceRows, getter, getLog, instant, retryMaxAttempts>>

\* get, the first lock scope: the fast path, else wait for the fetch in
\* flight, else register a Notify and fetch
GetBegin(g, secret_ref) ==
    /\ provider.built
    /\ getter[g].pc = "idle"
    /\ Len(getLog) < MaxGets
    /\ getLog' = LogBegin(secret_ref, Hit(secret_ref))
    /\ IF Hit(secret_ref)
       THEN /\ provider' = [provider EXCEPT !.cache = Touch(@, secret_ref)]
            /\ UNCHANGED getter
       ELSE IF \E f \in provider.inflight : f.ref = secret_ref
       THEN /\ getter' = [getter EXCEPT ![g] = [GetIdle EXCEPT !.pc = "dropped", !.ref = secret_ref, !.call = Len(getLog) + 1, !.n = (CHOOSE f \in provider.inflight : f.ref = secret_ref).notify]]
            /\ UNCHANGED provider
       ELSE /\ provider' = [provider EXCEPT !.inflight = @ \cup {[ref |-> secret_ref, notify |-> provider.notifies + 1]}, !.notifies = @ + 1]
            /\ getter' = [getter EXCEPT ![g] = [GetIdle EXCEPT !.pc = "fetch", !.ref = secret_ref, !.call = Len(getLog) + 1]]
    /\ UNCHANGED <<runStatus, dependsOn, stepStatus, depsRemaining, nextRunAt, attempts, now, schedPc, worker, cancelPc, crashes, claimLog, callers, runFinished, flow, dec, attemptStatus, attemptId, tables, execError, storeFailed, permits, sourceRows, instant, retryMaxAttempts>>

\* get, n.notified(): the future receives the notify_waiters calls made
\* after it was created
GetNotified(g) ==
    /\ getter[g].pc = "dropped"
    /\ getter' = [getter EXCEPT ![g].pc = IF getter[g].n \in provider.fired THEN "parked" ELSE "waiting"]
    /\ UNCHANGED <<runStatus, dependsOn, stepStatus, depsRemaining, nextRunAt, attempts, now, schedPc, worker, cancelPc, crashes, claimLog, callers, runFinished, flow, dec, attemptStatus, attemptId, tables, execError, storeFailed, permits, sourceRows, provider, getLog, instant, retryMaxAttempts>>

\* get, after the notification: try the cache again, else fall through to fetch
GetRecheck(g) ==
    /\ getter[g].pc = "woken"
    /\ IF Hit(getter[g].ref)
       THEN /\ provider' = [provider EXCEPT !.cache = Touch(@, getter[g].ref)]
            /\ getLog' = LogReturn(getter[g].call, TRUE, CachedValue(getter[g].ref))
            /\ getter' = [getter EXCEPT ![g] = GetIdle]
       ELSE /\ getter' = [getter EXCEPT ![g].pc = "fetch"]
            /\ UNCHANGED <<provider, getLog>>
    /\ UNCHANGED <<runStatus, dependsOn, stepStatus, depsRemaining, nextRunAt, attempts, now, schedPc, worker, cancelPc, crashes, claimLog, callers, runFinished, flow, dec, attemptStatus, attemptId, tables, execError, storeFailed, permits, sourceRows, instant, retryMaxAttempts>>

\* get: self.inner.get(secret_ref).await, outside the lock
GetFetch(g) ==
    /\ getter[g].pc = "fetch"
    /\ \E ok \in InnerOutcomes :
          getter' = [getter EXCEPT ![g].pc = "store", ![g].fetched = [ok |-> ok, value |-> provider.inner + 1]]
    /\ provider' = [provider EXCEPT !.inner = @ + 1]
    /\ getLog' = [getLog EXCEPT ![getter[g].call].inner = @ \cup {provider.inner + 1}]
    /\ UNCHANGED <<runStatus, dependsOn, stepStatus, depsRemaining, nextRunAt, attempts, now, schedPc, worker, cancelPc, crashes, claimLog, callers, runFinished, flow, dec, attemptStatus, attemptId, tables, execError, storeFailed, permits, sourceRows, instant, retryMaxAttempts>>

\* get, the last lock scope: inflight.remove, and on Ok enforce_capacity and cache.insert
GetStore(g) ==
    /\ getter[g].pc = "store"
    /\ LET mine == {f \in provider.inflight : f.ref = getter[g].ref}
           fresh == mine = {}
       IN  /\ getter' = [getter EXCEPT ![g].pc = "notify", ![g].n = IF fresh THEN provider.notifies + 1 ELSE (CHOOSE f \in mine : TRUE).notify]
           /\ \E kept \in (IF getter[g].fetched.ok THEN EnforceCapacity(provider.cache, provider.config.max_entries) ELSE {provider.cache}) :
                 provider' = [provider EXCEPT !.inflight = @ \ mine,
                                              !.notifies = IF fresh THEN @ + 1 ELSE @,
                                              !.cache = IF getter[g].fetched.ok THEN CacheInsert(kept, getter[g].ref, getter[g].fetched.value) ELSE @]
    /\ UNCHANGED <<runStatus, dependsOn, stepStatus, depsRemaining, nextRunAt, attempts, now, schedPc, worker, cancelPc, crashes, claimLog, callers, runFinished, flow, dec, attemptStatus, attemptId, tables, execError, storeFailed, permits, sourceRows, getLog, instant, retryMaxAttempts>>

\* get: notify.notify_waiters(), then return fetched
GetNotify(g) ==
    /\ getter[g].pc = "notify"
    /\ provider' = [provider EXCEPT !.fired = @ \cup {getter[g].n}]
    /\ getter' = [h \in Getters |-> IF h = g THEN GetIdle ELSE IF getter[h].pc = "waiting" /\ getter[h].n = getter[g].n THEN [getter[h] EXCEPT !.pc = "woken"] ELSE getter[h]]
    /\ getLog' = LogReturn(getter[g].call, getter[g].fetched.ok, getter[g].fetched.value)
    /\ UNCHANGED <<runStatus, dependsOn, stepStatus, depsRemaining, nextRunAt, attempts, now, schedPc, worker, cancelPc, crashes, claimLog, callers, runFinished, flow, dec, attemptStatus, attemptId, tables, execError, storeFailed, permits, sourceRows, instant, retryMaxAttempts>>

\* time passes
CacheTick ==
    /\ provider.built
    /\ instant < MaxInstant
    /\ instant' = instant + 1
    /\ UNCHANGED <<runStatus, dependsOn, stepStatus, depsRemaining, nextRunAt, attempts, now, schedPc, worker, cancelPc, crashes, claimLog, callers, runFinished, flow, dec, attemptStatus, attemptId, tables, execError, storeFailed, permits, sourceRows, provider, getter, getLog, retryMaxAttempts>>

\* concurrent callers asking for the same secret
FlightRefs == {"a"}

CacheNext ==
    \/ CacheNew
    \/ \E g \in Getters, secret_ref \in FlightRefs : GetBegin(g, secret_ref)
    \/ \E g \in Getters : GetNotified(g)
    \/ \E g \in Getters : GetRecheck(g)
    \/ \E g \in Getters : GetFetch(g)
    \/ \E g \in Getters : GetStore(g)
    \/ \E g \in Getters : GetNotify(g)
    \/ CacheTick

CacheSpec == Init /\ [][CacheNext]_vars

\* one caller asking for one secret after the other
CapacityNext ==
    \/ CacheNew
    \/ \E secret_ref \in SecretRefs : GetBegin(1, secret_ref)
    \/ GetFetch(1)
    \/ GetStore(1)
    \/ GetNotify(1)
    \/ CacheTick

CapacitySpec == Init /\ [][CapacityNext]_vars

\* one caller asking for the same secret again and again while time passes
TtlNext ==
    \/ CacheNew
    \/ \E secret_ref \in FlightRefs : GetBegin(1, secret_ref)
    \/ GetFetch(1)
    \/ GetStore(1)
    \/ GetNotify(1)
    \/ CacheTick

TtlSpec == Init /\ [][TtlNext]_vars

\* the statements of a get call after its first lock scope
GetStep(g) == GetNotified(g) \/ GetRecheck(g) \/ GetFetch(g) \/ GetStore(g) \/ GetNotify(g)

\* CacheSpec with every caller's task scheduled again and again and every
\* inner call returning
CacheLiveSpec == Init /\ [][CacheNext]_vars /\ \A g \in Getters : WF_vars(GetStep(g))

(***************************************************************************)
(* SnapshotSpec: what execute_step_attempt persists of a request and its   *)
(* response.  A string is a sequence of tokens, a header map a function    *)
(* from header names to strings, a body a sequence of byte tokens.         *)
(***************************************************************************)

\* str::to_ascii_lowercase on the header names used here
Lower(name) == CASE name \in {"Authorization", "AUTHORIZATION"} -> "authorization" [] name \in {"Cookie", "COOKIE"} -> "cookie" [] name = "Set-Cookie" -> "set-cookie" [] name \in {"X-Api-Key", "X-API-KEY"} -> "x-api-key" [] name = "Accept" -> "accept" [] OTHER -> name

\* str::eq_ignore_ascii_case
EqIgnoreAsciiCase(a, b) == Lower(a) = Lower(b)

\* SensitiveHeadersConfig::default().always_redact
DefaultAlwaysRedact == <<"authorization", "cookie", "set-cookie">>

RedactedHeader == <<"<redacted>">>

\* REDACTED = b"<body-redacted:contains-secrets>", one token per byte
RedactedBodyLen == 32

RedactedBody == [i \in 1 .. RedactedBodyLen |-> "*"]

\* the redaction that compares the header name as it is written
RedactExactName(map, header_lower) == [k \in DOMAIN map |-> IF k = header_lower THEN RedactedHeader ELSE map[k]]

\* redact_case_insensitive
RedactCaseInsensitive(map, header_lower) == [k \in DOMAIN map |-> IF EqIgnoreAsciiCase(k, header_lower) THEN RedactedHeader ELSE map[k]]

RECURSIVE RedactAll(_, _)
RedactAll(map, names) == IF names = <<>> THEN map ELSE RedactAll(RedactCaseInsensitive(map, Head(names)), Tail(names))

\* sanitize_headers
SanitizeHeaders(headers, always_redact, secret_derived_headers) == RedactAll(headers, always_redact \o secret_derived_headers)

\* truncate_body
TruncateBody(body, max_bytes) == IF Len(body) <= max_bytes THEN [bytes |-> body, truncated |-> FALSE] ELSE [bytes |-> SubSeq(body, 1, max_bytes), truncated |-> TRUE]

\* redact_body_with_secrets
RedactBodyWithSecrets(body, max_bytes) == [bytes |-> SubSeq(RedactedBody, 1, Min(RedactedBodyLen, max_bytes)), truncated |-> Len(body) > max_bytes]

\* SecretRef::parse: scheme "://" id, neither empty
SecretRefParse(s) == Len(s) = 3 /\ s[2] = "://" /\ s[1] # "" /\ s[3] # ""

\* resolve_secret: (value, is_secret); secret is what secrets.get returns (None: an error)
ResolveSecret(secret, s, allowed) == IF allowed /\ SecretRefParse(s) /\ secret # None THEN <<<<secret>>, TRUE>> ELSE <<s, FALSE>>

\* build_request, one parameter: acc holds headers, query, path_params and secret_derived_headers
BuildParameter(acc, p, secret, allow_secrets_in_url) ==
    LET inHeader == ResolveSecret(secret, p.value, TRUE)
        inUrl == ResolveSecret(secret, p.value, allow_secrets_in_url)
        cookie == <<p.name, "=">> \o inHeader[1]
    IN  CASE p.in = "header" -> [acc EXCEPT !.headers = (p.name :> inHeader[1]) @@ @, !.secret_derived_headers = IF inHeader[2] THEN Append(@, p.name) ELSE @]
          [] p.in = "query" -> [acc EXCEPT !.query = Append(@, <<p.name, inUrl[1]>>)]
          [] p.in = "path" -> [acc EXCEPT !.path_params = (p.name :> inUrl[1]) @@ @]
          [] p.in = "cookie" -> [acc EXCEPT !.headers = ("Cookie" :> (IF "Cookie" \in DOMAIN acc.headers THEN acc.headers["Cookie"] \o <<"; ">> \o cookie ELSE cookie)) @@ @, !.secret_derived_headers = IF inHeader[2] THEN Append(@, "Cookie") ELSE @]

RECURSIVE BuildParameters(_, _, _, _)
BuildParameters(acc, params, secret, allow_secrets_in_url) == IF params = <<>> THEN acc ELSE BuildParameters(BuildParameter(acc, Head(params), secret, allow_secrets_in_url), Tail(params), secret, allow_secrets_in_url)

\* resolve_body_secrets of a payload {"k": value}: (bytes, has_secrets)
ResolveBodySecrets(secret, payload) == IF payload = <<>> THEN << <<>>, FALSE >> ELSE IF SecretRefParse(payload) /\ secret # None THEN << <<"{", secret, "}">>, TRUE >> ELSE << <<"{">> \o payload \o <<"}">>, FALSE >>

\* build_request: RequestBuildResult
BuildRequest(step, secret, allow_secrets_in_url) ==
    LET acc == BuildParameters([headers |-> <<>>, query |-> <<>>, path_params |-> <<>>, secret_derived_headers |-> <<>>], step.parameters, secret, allow_secrets_in_url)
        body == ResolveBodySecrets(secret, step.payload)
    IN  [parts |-> [method |-> "POST", url |-> [base |-> "https://example.com", path |-> acc.path_params, query |-> acc.query], headers |-> acc.headers, body |-> body[1]],
         secret_derived_headers |-> acc.secret_derived_headers,
         body_contains_secrets |-> body[2]]

\* the fields enforce_request reads of the parts
PartsForPolicy(parts) == [scheme |-> "https", host |-> <<"example", "com">>, private_ip |-> FALSE, headers_count |-> Cardinality(DOMAIN parts.headers), headers_bytes |-> 64, body_len |-> Len(parts.body)]

\* PolicyGate::apply_request
ApplyRequest(parts, always_redact, secret_derived_header_names, body_contains_secrets) ==
    IF EnforceRequest(PartsForPolicy(parts)) # "ok" THEN [ok |-> FALSE]
    ELSE [ok |-> TRUE, url |-> parts.url, method |-> parts.method,
          headers |-> SanitizeHeaders(parts.headers, always_redact, secret_derived_header_names),
          body |-> IF body_contains_secrets THEN RedactBodyWithSecrets(parts.body, RequestMaxBodyBytes) ELSE TruncateBody(parts.body, RequestMaxBodyBytes)]

\* PolicyGate::apply_response
ApplyResponse(resp, always_redact, secret_derived_header_names) ==
    IF EnforceResponse(resp) # "ok" THEN [ok |-> FALSE]
    ELSE [ok |-> TRUE, status |-> resp.status,
          headers |-> SanitizeHeaders(resp.headers, always_redact, secret_derived_header_names),
          body |-> TruncateBody(resp.body, ResponseMaxBodyBytes)]

\* request_to_json
RequestToJson(r) == [method |-> r.method, url |-> r.url, headers |-> r.headers, body |-> r.body.bytes, body_truncated |-> r.body.truncated]

\* response_to_json
ResponseToJson(r) == [status |-> r.status, headers |-> r.headers, body |-> r.body.bytes, body_truncated |-> r.body.truncated]

\* nothing persisted: the JSON {} that finish_attempt gets on the error paths
EmptyJson == [headers |-> <<>>, body |-> <<>>]

\* execute_step_attempt: the request JSON given to insert_attempt_auto and
\* the response JSON given to finish_attempt (persisted = FALSE: no row)
AttemptSnapshots(in) ==
    LET built == BuildRequest(in.step, in.secret, in.allow_secrets_in_url)
        req == ApplyRequest(built.parts, in.always_redact, built.secret_derived_headers, built.body_contains_secrets)
        resp == ApplyResponse(in.sent.resp, in.always_redact, built.secret_derived_headers)
    IN  IF ~req.ok THEN [persisted |-> FALSE, wire |-> built, request |-> EmptyJson, response |-> EmptyJson]
        ELSE [persisted |-> TRUE, wire |-> built, request |-> RequestToJson(req),
              response |-> IF in.sent.kind = "response" /\ resp.ok THEN ResponseToJson(resp) ELSE EmptyJson]

PlainValue == <<"plain">>

RefValue == <<"secrets", "://", "api-key">>

\* the parameters a step can declare
Parameters ==
    { [name |-> "Authorization", in |-> "header", value |-> RefValue],
      [name |-> "AUTHORIZATION", in |-> "header", value |-> PlainValue],
      [name |-> "X-Api-Key", in |-> "header", value |-> RefValue],
      [name |-> "X-API-KEY", in |-> "header", value |-> PlainValue],
      [name |-> "Accept", in |-> "header", value |-> PlainValue],
      [name |-> "session", in |-> "cookie", value |-> RefValue],
      [name |-> "token", in |-> "query", value |-> RefValue],
      [name |-> "id", in |-> "path", value |-> RefValue] }

\* the longest parameter list of a step
MaxParams == 2

ParameterLists == UNION {[1 .. n -> Parameters] : n \in 0 .. MaxParams}

SnapshotSteps == [parameters : ParameterLists, payload : {<<>>, PlainValue, RefValue}]

\* what the secrets provider returns for the reference
SecretValues == {"hunter2", "swordfish"}

\* responses: a cookie set by the server, the key echoed, an oversized body
SnapshotResponses ==
    { [kind |-> "response", resp |-> [status |-> 200, headers |-> ("Set-Cookie" :> <<"sid">>) @@ ("Content-Type" :> <<"json">>), headers_count |-> 2, headers_bytes |-> 64, body_len |-> 2, body |-> <<"o", "k">>]],
      [kind |-> "response", resp |-> [status |-> 500, headers |-> ("X-API-KEY" :> <<"echo">>) @@ ("COOKIE" :> <<"c">>), headers_count |-> 2, headers_bytes |-> 64, body_len |-> ResponseMaxBodyBytes + 1, body |-> <<"b", "i", "g">>]],
      [kind |-> "response", resp |-> [status |-> 401, headers |-> ("x-api-key" :> <<"echo">>) @@ ("AUTHORIZATION" :> <<"a">>), headers_count |-> 2, headers_bytes |-> 64, body_len |-> 2, body |-> <<"n", "o">>]],
      [kind |-> "error", resp |-> [status |-> 0, headers |-> <<>>, headers_count |-> 0, headers_bytes |-> 0, body_len |-> 0, body |-> <<>>]] }

SnapshotInputs ==
    [step : SnapshotSteps,
     secret : SecretValues \cup {None},
     allow_secrets_in_url : BOOLEAN,
     always_redact : {DefaultAlwaysRedact, <<"accept">>},
     sent : SnapshotResponses]

SnapshotCall ==
    /\ dec.pc = "idle"
    /\ \E in \in SnapshotInputs :
          dec' = [pc |-> "called", fn |-> "snapshot", in |-> in, out |-> AttemptSnapshots(in)]
    /\ UNCHANGED <<storeVars, attempts, now, schedPc, worker, cancelPc, crashes, claimLog, callers, runFinished, flow, attemptStatus, attemptId, tables, execError, storeFailed, permits, sourceRows, provider, getter, getLog, instant, retryMaxAttempts>>

SnapshotNext ==
    \/ SnapshotCall
    \/ CallReturn

SnapshotSpec == Init /\ [][SnapshotNext]_vars

(***************************************************************************)
(* PlanSpec: build_step_dependency_graph and topo_sort.  A step id is its  *)
(* rank in the alphabetical order of the ids (the order of the BTreeSet),  *)
(* and depends_on maps every step to the set of ids its expressions name.  *)
(***************************************************************************)

\* the steps of the largest workflow planned
MaxPlanSteps == 4

PlanSteps == 1 .. MaxPlanSteps

RECURSIVE Sorted(_)
\* the elements of a set of ids in ascending order: BTreeSet iteration, Vec::sort
Sorted(S) == IF S = {} THEN <<>> ELSE LET m == CHOOSE x \in S : \A y \in S : x <= y IN <<m>> \o Sorted(S \ {m})

\* the filter that also drops a step's reference to its own outputs
KnownDepsNoSelf(nodes, deps) == [n \in nodes |-> (deps[n] \cap nodes) \ {n}]

\* build_step_dependency_graph: the dependencies that are steps of the workflow
KnownDeps(nodes, deps) == [n \in nodes |-> deps[n] \cap nodes]

\* topo_sort: the steps that depend on d, sorted
Outgoing(nodes, depends_on, d) == Sorted({n \in nodes : d \in depends_on[n]})

RECURSIVE Drain(_, _, _, _, _)
\* topo_sort, the while loop over the queue q
Drain(nodes, depends_on, q, indeg, out) ==
    IF q = <<>> THEN out
    ELSE LET n == Head(q)
             nexts == {m \in nodes : n \in depends_on[m]}
             after == [m \in nodes |-> IF m \in nexts THEN indeg[m] - 1 ELSE indeg[m]]
         IN  Drain(nodes, depends_on, Tail(q) \o SelectSeq(Outgoing(nodes, depends_on, n), LAMBDA m : after[m] = 0), after, Append(out, n))

\* topo_sort: the order, or the cycle error
TopoSort(nodes, depends_on) ==
    LET indeg == [n \in nodes |-> Cardinality(depends_on[n])]
        out == Drain(nodes, depends_on, Sorted({n \in nodes : indeg[n] = 0}), indeg, <<>>)
    IN  IF Len(out) # Cardinality(nodes) THEN [ok |-> FALSE, topo_order |-> <<>>] ELSE [ok |-> TRUE, topo_order |-> out]

\* build_step_dependency_graph: depends_on and topo_order, or the error
BuildStepDependencyGraph(nodes, deps) ==
    LET depends_on == KnownDeps(nodes, deps)
        sorted == TopoSort(nodes, depends_on)
    IN  [ok |-> sorted.ok, depends_on |-> depends_on, topo_order |-> sorted.topo_order]

\* the workflows planned: up to MaxPlanSteps steps, each naming at most two steps
\* (itself and steps outside the workflow included) in its expressions
PlanDeps == {d \in SUBSET PlanSteps : Cardinality(d) <= 2}

PlanCall ==
    /\ dec.pc = "idle"
    /\ \E n \in PlanSteps : \E deps \in [1 .. n -> PlanDeps] :
          dec' = [pc |-> "called", fn |-> "build_step_dependency_graph", in |-> [nodes |-> 1 .. n, deps |-> deps], out |-> BuildStepDependencyGraph(1 .. n, deps)]
    /\ UNCHANGED <<storeVars, attempts, now, schedPc, worker, cancelPc, crashes, claimLog, callers, runFinished, flow, attemptStatus, attemptId, tables, execError, storeFailed, permits, sourceRows, provider, getter, getLog, instant, retryMaxAttempts>>

PlanNext ==
    \/ PlanCall
    \/ CallReturn

PlanInit == Init /\ dependsOn = [s \in Steps |-> {}]

PlanSpec == PlanInit /\ [][PlanNext]_vars

(***************************************************************************)
(* MarkSpec: mark_step_failed on the rows of a run.  A row of run_steps is *)
(* its status, outputs and error; the edges are dependsOn.                 *)
(***************************************************************************)

\* a row of run_steps: outputs are written by mark_step_succeeded, which also
\* clears error; error is written by schedule_retry and mark_step_failed
StepRow(status, outputs, error) == [status |-> status, outputs |-> outputs, error |-> error]

StepRows ==
    { StepRow("pending", None, None), StepRow("pending", None, "e0"),
      StepRow("running", None, None), StepRow("running", None, "e0"),
      StepRow("succeeded", "out", None), StepRow("failed", None, "e0"), StepRow("skipped", None, "e0") }

\* the rows a run can hold while a worker has step_id claimed: a row leaves
\* pending by a claim only when every upstream step has succeeded, and a row is
\* skipped only below a failed or skipped step
RunRows(step_id) ==
    {rows \in [Steps -> StepRows] :
        /\ rows[step_id].status = "running"
        /\ \A d \in Steps : rows[d].status \in {"running", "succeeded", "failed"} => \A u \in dependsOn[d] : rows[u].status = "succeeded"
        /\ \A d \in Steps : rows[d].status = "skipped" => \E u \in dependsOn[d] : rows[u].status \in {"failed", "skipped"}}

\* the second UPDATE without its test of d.status
MarkStepFailedAnyStatus(rows, step_id, error) ==
    LET first == [rows EXCEPT ![step_id].status = "failed", ![step_id].error = error]
        st == [d \in Steps |-> first[d].status]
    IN  [d \in Steps |-> IF d \in ToSkip(step_id, st) THEN [first[d] EXCEPT !.status = "skipped", !.error = error] ELSE first[d]]

\* mark_step_failed: both UPDATEs of the transaction, on whole rows
MarkStepFailed(rows, step_id, error) ==
    LET first == [rows EXCEPT ![step_id].status = "failed", ![step_id].error = error]
        st == [d \in Steps |-> first[d].status]
    IN  [d \in Steps |-> IF d \in ToSkip(step_id, st) /\ st[d] = "pending" THEN [first[d] EXCEPT !.status = "skipped", !.error = error] ELSE first[d]]

MarkCall ==
    /\ dec.pc = "idle"
    /\ \E step_id \in Steps : \E rows \in RunRows(step_id) :
          dec' = [pc |-> "called", fn |-> "mark_step_failed", in |-> [rows |-> rows, step_id |-> step_id], out |-> MarkStepFailed(rows, step_id, "e1")]
    /\ UNCHANGED <<storeVars, attempts, now, schedPc, worker, cancelPc, crashes, claimLog, callers, runFinished, flow, attemptStatus, attemptId, tables, execError, storeFailed, permits, sourceRows, provider, getter, getLog, instant, retryMaxAttempts>>

MarkNext ==
    \/ MarkCall
    \/ CallReturn

MarkSpec == Init /\ [][MarkNext]_vars

(***************************************************************************)
(* Properties.                                                             *)
(***************************************************************************)
TypeOK ==
    /\ runStatus \in {"queued", "running"} \cup RunTerminal
    /\ \A s \in Steps : stepStatus[s] \in {"pending", "running"} \cup StepTerminal

\* transitive descendants of s in the dependency graph
RECURSIVE DescendantsFrom(_)
DescendantsFrom(T) ==
    LET more == {t \in Steps : \E u \in T : u \in dependsOn[t]}
    IN  IF more \subseteq T THEN T ELSE DescendantsFrom(T \cup more)

Descendants(s) == DescendantsFrom(Children(s))

\* C1: whenever the run's status is succeeded, failed or canceled, every step
\* row of the run is succeeded, failed or skipped.
C1_TerminalRunHasTerminalSteps ==
    runStatus \in RunTerminal => \A s \in Steps : stepStatus[s] \in StepTerminal

\* C2: every step that is running or succeeded has all of its declared
\* upstream steps succeeded.
C2_UpstreamSucceeded ==
    \A s \in Steps :
        stepStatus[s] \in {"running", "succeeded"}
            => \A u \in dependsOn[s] : stepStatus[u] = "succeeded"

\* a step with two upstream steps is running after both succeeded
C2_Witness ==
    \E s \in Steps :
        /\ Cardinality(dependsOn[s]) = 2
        /\ stepStatus[s] = "running"
        /\ \A u \in dependsOn[s] : stepStatus[u] = "succeeded"

\* C3: execute_run eventually returns, and when it has returned every step
\* row is succeeded, failed or skipped and the run's status is terminal.
C3_ExecuteRunReturns ==
    /\ <>(schedPc = "done")
    /\ [](schedPc = "done" =>
            /\ \A s \in Steps : stepStatus[s] \in StepTerminal
            /\ runStatus \in RunTerminal)

\* C4: a step of mark_step_failed leaves the step failed and every descendant
\* that was pending skipped; no descendant of a failed step is ever pending.
C4_FailureCascade ==
    /\ [](\A s \in Steps : stepStatus[s] = "failed"
            => \A d \in Descendants(s) : stepStatus[d] # "pending")
    /\ [][\A s \in Steps :
            (stepStatus[s] # "failed" /\ stepStatus'[s] = "failed")
                => \A d \in Descendants(s) :
                       stepStatus[d] = "pending" => stepStatus'[d] = "skipped"]_vars

\* a step failed and a descendant that is not its child was skipped
C4_Witness ==
    \E s \in Steps : \E d \in Descendants(s) \ Children(s) :
        stepStatus[s] = "failed" /\ stepStatus[d] = "skipped"

\* the limit of the claim call the scheduler is about to make
ClaimLimit == IF schedPc = "complete" THEN 1 ELSE GlobalConcurrency

C6_NoEarlyRetry ==
    \A s \in Steps :
        stepStatus[s] = "running" => (nextRunAt[s] = NULL \/ nextRunAt[s] <= now)

\* a step rescheduled with a delay is running again, after the delay
C6_Witness ==
    \E s \in Steps :
        /\ stepStatus[s] = "running"
        /\ nextRunAt[s] # NULL
        /\ nextRunAt[s] > 0
        /\ nextRunAt[s] <= now
        /\ Len(attempts[s]) >= 1

\* C7: the run's status moves only from running to succeeded, failed or
\* canceled, and once it is one of these no later call changes it.
C7_RunStatusMachine ==
    [][/\ (runStatus \in RunTerminal) => (runStatus' = runStatus)
       /\ (runStatus = "queued") => (runStatus' \in {"queued", "running"})]_vars

\* C8: once the run has been set to canceled while execute_run is in
\* progress, no claim moves a pending step of the run to running.
C8_NoClaimAfterCancel ==
    [][runStatus = "canceled" =>
          \A s \in Steps : ~(stepStatus[s] = "pending" /\ stepStatus'[s] = "running")]_vars

\* C9: the attempt_no values of a step's attempt rows are exactly 1..N, with
\* no gap and no duplicate.
C9_AttemptNumbers ==
    \A s \in Steps :
        /\ Range(attempts[s]) = 1..Len(attempts[s])
        /\ Cardinality(Range(attempts[s])) = Len(attempts[s])

\* two statements computed the same attempt_no for a step, one has
\* inserted it and the step has several rows
C9_Witness ==
    \E c \in 1..NumCallers :
        /\ callers[c].pc = "read"
        /\ ~UniqueAttemptNo(callers[c].step, callers[c].no)
        /\ Len(attempts[callers[c].step]) >= 2

\* C10: a step's status changes only pending -> running, running ->
\* succeeded, failed or pending, and pending -> skipped.
C10_StepStatusMachine ==
    [][\A s \in Steps :
          stepStatus'[s] # stepStatus[s] =>
              <<stepStatus[s], stepStatus'[s]>> \in
                  { <<"pending", "running">>, <<"running", "succeeded">>,
                    <<"running", "failed">>, <<"running", "pending">>,
                    <<"pending", "skipped">> }]_vars

\* a step went back to pending (retry or stale reset), ran again and ended,
\* and another step was skipped
C10_Witness ==
    /\ \E s \in Steps : stepStatus[s] \in {"succeeded", "failed"} /\ Len(attempts[s]) >= 2
    /\ \E s \in Steps : stepStatus[s] = "skipped"

\* C11: a step's deps_remaining is 0 if and only if every upstream step it
\* depends on is succeeded.
C11_DepsRemainingZeroIffUpstreamSucceeded ==
    \A s \in Steps :
        depsRemaining[s] = 0 <=> \A u \in dependsOn[s] : stepStatus[u] = "succeeded"

\* a step with two upstream steps has been counted down to 0 and waits to
\* be claimed
C11_Witness ==
    \E s \in Steps :
        /\ Cardinality(dependsOn[s]) = 2
        /\ depsRemaining[s] = 0
        /\ stepStatus[s] = "pending"

\* C12: when a step of the run is failed the run's status is never
\* succeeded, and once execute_run has returned it is failed.
C12_FailedStepFailsRun ==
    (\E s \in Steps : stepStatus[s] = "failed") =>
        /\ runStatus # "succeeded"
        /\ schedPc = "done" => runStatus = "failed"

\* C13: when a step has failed and ended the run, every run.finished event
\* emitted for the run carries the status failed.
C13_RunFinishedCarriesFailed ==
    (\E s \in Steps : stepStatus[s] = "failed") => runFinished \subseteq {"failed"}

\* the gate denied the request of the attempt, or the response it received
RequestDenied(in) == in.req.build_ok /\ EnforceRequest(in.req) # "ok"

ResponseDenied(in) ==
    /\ in.req.build_ok
    /\ EnforceRequest(in.req) = "ok"
    /\ in.insert_ok
    /\ in.sent.kind = "response"
    /\ EnforceResponse(in.sent.resp) # "ok"

\* C16: decide_retry returns Stop(PolicyFailure) whenever policy_failed is
\* true, and an attempt whose request or response the policy gate denied
\* never results in Retry: it is Failed with end_run = true.
C16_PolicyFailureNeverRetried ==
    dec.pc = "called" =>
        /\ (dec.fn = "decide_retry" /\ dec.in.policy_failed)
              => dec.out = Stop("PolicyFailure")
        /\ (dec.fn = "execute_step_attempt" /\ (RequestDenied(dec.in) \/ ResponseDenied(dec.in)))
              => dec.out.result = Failed("policy", TRUE)

\* the gate denied a retryable response (503) of a first attempt of a step
\* that declares a retry action, and the attempt ended Failed
C16_Witness ==
    /\ dec.pc = "called"
    /\ dec.fn = "execute_step_attempt"
    /\ ResponseDenied(dec.in)
    /\ dec.in.sent.resp.status = 503
    /\ dec.in.actions = <<RetryAction(NULL, NULL)>>
    /\ dec.in.rows = {}
    /\ dec.out.result.kind = "Failed"

\* C17: with policy_failed false and a declared retry limit, decide_retry
\* returns Stop(AttemptsExhausted) exactly when
\* attempt_no >= min(global max_attempts, declared limit + 1).
C17_AttemptsExhausted ==
    (/\ dec.pc = "called"
     /\ dec.fn = "decide_retry"
     /\ ~dec.in.policy_failed
     /\ dec.in.arazzo_retry_limit # NULL)
        => (dec.out = Stop("AttemptsExhausted")
              <=> dec.in.attempt_no >=
                    Min(dec.in.cfg.max_attempts, dec.in.arazzo_retry_limit + 1))

\* the delay each source gives for a call of decide_retry, NULL when the
\* source gives none
StandardDelay(in) ==
    IF in.response_headers = {} THEN NULL
    ELSE ParseStandard(CHOOSE h \in in.response_headers : TRUE, in.nowT)

VendorDelay(in) ==
    IF in.response_headers = {} THEN NULL
    ELSE ParseVendorFrom(CHOOSE h \in in.response_headers : TRUE,
                         in.cfg.vendor_headers, 1, in.nowT)

Undecided(d) ==
    \/ d.fn = "decide_failure"
    \/ /\ d.fn = "execute_step_attempt"
       /\ d.in.req.build_ok
       /\ EnforceRequest(d.in.req) = "ok"
       /\ d.in.insert_ok
       /\ \/ d.in.sent.kind = "error"
          \/ /\ EnforceResponse(d.in.sent.resp) = "ok"
             /\ ~EvaluateSuccess(d.in.sent.resp)

ResultOf(d) == IF d.fn = "decide_failure" THEN d.out ELSE d.out.result

AttemptNoOf(d) ==
    IF d.fn = "decide_failure" THEN d.in.attempt_no ELSE NextAttemptNo(d.in.rows)

\* C19: after a non-success response or a network error the result is Retry
\* only if the step declares a retry action that decide_retry allows
\* (attempts remain and, for a response, the status is retryable); in every
\* other case it is Failed with end_run = true.
C19_RetryOnlyWhenDeclaredAndAllowed ==
    (dec.pc = "called" /\ dec.fn \in {"decide_failure", "execute_step_attempt"}
                       /\ Undecided(dec)) =>
        LET in == dec.in
            isResp == in.sent.kind = "response"
            allowed(a) ==
                DecideRetry(in.cfg, AttemptNoOf(dec), a.retry_limit, a.retry_after_seconds,
                            FALSE, IF isResp THEN in.sent.resp.status ELSE NULL,
                            IF isResp THEN {in.sent.resp.headers} ELSE {},
                            ~isResp, in.nowT, in.rand_u64).kind = "RetryAfter"
        IN  /\ ResultOf(dec).kind = "Retry" =>
                /\ \E i \in 1..Len(in.actions) :
                       in.actions[i].type = "retry" /\ allowed(in.actions[i])
                /\ AttemptNoOf(dec) < in.cfg.max_attempts
                /\ isResp => in.sent.resp.status \in in.cfg.retry_statuses
            /\ ResultOf(dec).kind # "Retry" =>
                /\ ResultOf(dec).kind = "Failed"
                /\ ResultOf(dec).end_run
            /\ in.actions = <<>> => ResultOf(dec).kind = "Failed"

\* a retryable response to a step whose first failure action is a goto and
\* whose second is a retry: the result is Retry
C19_Witness ==
    /\ dec.pc = "called"
    /\ dec.fn = "decide_failure"
    /\ dec.in.sent.kind = "response"
    /\ Len(dec.in.actions) = 2
    /\ dec.in.actions[1].type = "goto"
    /\ dec.in.actions[2].type = "retry"
    /\ dec.out.kind = "Retry"

\* the rules of the gate, stated on the request: scheme, host, private IP
\* literal, header count and bytes, body size
GateDenies(req) ==
    \/ req.scheme \notin AllowedSchemes
    \/ req.host = <<>>
    \/ ~HostAllowed(req.host)
    \/ req.private_ip
    \/ req.headers_count > RequestMaxHeadersCount
    \/ req.headers_bytes > RequestMaxHeadersBytes
    \/ req.body_len > RequestMaxBodyBytes

\* the entries of a trace with one of the names
Entries(trace, names) == {i \in 1..Len(trace) : trace[i].name \in names}

\* C14: an attempt whose built request the policy gate denies inserts no
\* attempt row, emits no attempt.started event and never invokes the HTTP
\* client.
C14_DeniedRequestNotSent ==
    [][\A s \in Steps :
          (/\ flow[s].pc = "idle"
           /\ flow'[s].pc = "apply"
           /\ flow'[s].req.build_ok
           /\ GateDenies(flow'[s].req))
              => /\ attempts'[s] = attempts[s]
                 /\ Entries(flow'[s].trace,
                            {"insert_attempt_auto", "attempt.started", "http.send"}) = {}]_vars

\* a step's request was denied on its host: run_step has finished, the step
\* is failed and has no attempt row
C14_Witness ==
    \E s \in Steps :
        /\ flow[s].pc = "returned"
        /\ flow[s].req.build_ok
        /\ GateDenies(flow[s].req)
        /\ ~HostAllowed(flow[s].req.host)
        /\ Len(attempts[s]) = 0
        /\ stepStatus[s] = "failed"

\* C15: when the gate denies a step's request, a policy.denied event is
\* emitted for the step and the step's result is Failed with end_run = true.
C15_PolicyDeniedEmitted ==
    \A s \in Steps :
        (/\ flow[s].pc = "returned"
         /\ flow[s].req.build_ok
         /\ GateDenies(flow[s].req))
            => /\ flow[s].result = Failed("policy", TRUE)
               /\ Entries(flow[s].trace, {"policy.denied"}) # {}

StaleRows == {s \in Steps : schedPc = "reset" /\ stepStatus[s] = "running"}

\* reset_stale_running_steps sets exactly the rows in running to pending
\* (and returns their number, rows_affected), then execute_run is entered
ResetSetsStalePending ==
    [][schedPc = "reset" /\ schedPc' # "reset"
          => /\ schedPc' = "init"
             /\ \A s \in Steps :
                   stepStatus'[s] = IF s \in StaleRows THEN "pending" ELSE stepStatus[s]]_vars

\* each row that was reset is claimed again and handed to a worker
StaleReexecuted ==
    \A s \in Steps : (s \in StaleRows) ~> (worker[s] = "start")

\* C21: when a run is resumed with step rows left in running,
\* reset_stale_running_steps sets each of them to pending, and the
\* execute_run that follows executes those steps again and drives the run
\* to a terminal status.
C21_ResumeDrivesRunToTerminal ==
    /\ ResetSetsStalePending
    /\ StaleReexecuted
    /\ (StaleRows # {}) ~> (runStatus \in RunTerminal)

\* attempt row i of step s is in status running and no live worker holds it:
\* the worker that inserted it died in a crash
Orphaned(s, i) ==
    /\ i \in DOMAIN attemptStatus[s]
    /\ attemptStatus[s][i] = "running"
    /\ ~(worker[s] = "sent" /\ attemptId[s] = i)

\* C22: reset_stale_running_steps and every later operation leave the
\* attempt row of a crashed attempt as it is, in status running, and every
\* later attempt of the step is a new row with a higher attempt_no.
C22_CrashedAttemptUntouched ==
    /\ [][\A s \in Steps : \A i \in DOMAIN attemptStatus[s] :
            Orphaned(s, i) =>
                /\ i \in DOMAIN attemptStatus'[s]
                /\ attemptStatus'[s][i] = "running"
                /\ attempts'[s][i] = attempts[s][i]]_vars
    /\ [][\A s \in Steps :
            attempts'[s] # attempts[s] =>
                \E no \in 1..(MaxAttempts + MaxCrashes + 1) :
                    /\ attempts'[s] = Append(attempts[s], no)
                    /\ attemptStatus'[s] = Append(attemptStatus[s], "running")
                    /\ \A i \in DOMAIN attempts[s] : attempts[s][i] < no]_vars

\* after a crash and a resume a step has the crashed attempt's row, still
\* running, and a later attempt that succeeded
C22_Witness ==
    \E s \in Steps :
        /\ crashes > 0
        /\ stepStatus[s] = "succeeded"
        /\ Len(attemptStatus[s]) = 2
        /\ Orphaned(s, 1)
        /\ attemptStatus[s][2] = "succeeded"
        /\ attempts[s] = <<1, 2>>

\* C23: create_run_and_steps called with a non-null (created_by,
\* idempotency_key) that a run row already has returns that row's id and
\* adds no run row, no step row and no edge row.
C23_CreateRunIdempotent ==
    [][(/\ dec'.pc = "called"
        /\ dec'.fn = "create_run_and_steps"
        /\ dec'.in.run.created_by # None
        /\ dec'.in.run.idempotency_key # None
        /\ ExistingRun(tables.workflow_runs, dec'.in.run) # 0)
          => /\ dec'.out = Ok(ExistingRun(tables.workflow_runs, dec'.in.run))
             /\ tables' = tables]_vars

\* C24: upsert_workflow_doc called with a doc_hash that a row already has
\* returns that row's id and leaves the row's format, raw and doc as they
\* were stored.
C24_UpsertLeavesRow ==
    [][(/\ dec'.pc = "called"
        /\ dec'.fn = "upsert_workflow_doc"
        /\ ExistingDoc(tables.workflow_docs, dec'.in.doc_hash) # 0)
          => LET i == ExistingDoc(tables.workflow_docs, dec'.in.doc_hash)
             IN  /\ dec'.out.id = i
                 /\ tables'.workflow_docs = tables.workflow_docs]_vars

\* C25: when a store call made while executing a run has failed, in the
\* scheduler or in a worker, execute_run returns the store error, and no
\* step moves the run row to a terminal status because of the failure.
C25_StoreErrorSurfaced ==
    /\ [](schedPc = "done" /\ storeFailed # {} => execError = "Store")
    /\ [][\A s \in Steps :
            (/\ flow[s].pc \in {"apply", "end_run"}
             /\ flow[s].result.kind = "Failed"
             /\ flow[s].result.error = "store"
             /\ flow'[s] # flow[s])
                => (runStatus' \in RunTerminal => runStatus \in RunTerminal)]_vars

\* C26: execute_run returns an error only when a store operation failed;
\* a claimed step that targets a workflowId and has no compiled operation
\* does not make it return one, and once execute_run has returned such a
\* step is succeeded.
C26_OnlyStoreErrors ==
    /\ execError # "none" => (execError = "Store" /\ storeFailed # {})
    /\ \A s \in SubWorkflowSteps :
          (schedPc = "done" /\ stepStatus[s] \notin {"pending", "skipped"})
              => stepStatus[s] = "succeeded"

\* the call was for a step with outputs, its request passed the gate, the
\* response passed it too and met the success criteria, and one of the
\* output expressions does not evaluate
OutputFailsAfterSuccess(d) ==
    /\ d.pc = "called"
    /\ d.fn = "execute_step_attempt"
    /\ "outputs" \in DOMAIN d.in
    /\ ~GateDenies(d.in.req)
    /\ d.in.sent.kind = "response"
    /\ ~ResponseDenied(d.in)
    /\ d.in.sent.resp.status \in 200..299
    /\ \E k \in DOMAIN d.in.outputs : ~EvalValue(d.in.outputs[k]).ok

\* C27: when an output expression of the step fails to evaluate after a
\* response that met the success criteria, the attempt is recorded (inserted
\* and finished) and the result of the step is Failed, not Succeeded.
C27_OutputFailureFailsStep ==
    OutputFailsAfterSuccess(dec) =>
        /\ Entries(dec.out.trace, {"insert_attempt_auto"}) # {}
        /\ Entries(dec.out.trace, {"finish_attempt"}) # {}
        /\ dec.out.result.kind = "Failed"

\* the steps whose task holds a permit of the global semaphore
HoldingPermit == {s \in Steps : permits[s] \in {"global", "held"}}

\* the workers executing a step whose operation belongs to source src
ExecutingSource(src) == {s \in Steps : permits[s] = "held" /\ sourceRows[s].resolved = src}

\* the global half of C28: never more than global_concurrency permits out
GlobalLimitHolds == Cardinality(HoldingPermit) <= GlobalConcurrency

\* the per-source half of C28 restricted to rows that carry their source name
ListedLimitHoldsForNamedRows ==
    \A src \in DOMAIN PerSourceConcurrency :
        Cardinality({s \in ExecutingSource(src) : sourceRows[s].source_name = src}) <= PerSourceConcurrency[src]

\* C28: at any instant of a run at most global_concurrency workers hold a
\* permit, and for every source listed in per_source_concurrency at most
\* per_source_concurrency[source] workers execute a step of that source.
C28_PermitLimits ==
    /\ Cardinality(HoldingPermit) <= GlobalConcurrency
    /\ \A src \in DOMAIN PerSourceConcurrency :
           Cardinality(ExecutingSource(src)) <= PerSourceConcurrency[src]

\* two get calls for one secret that overlapped and both began while the
\* cache held no unexpired entry for it
ConcurrentMisses(i, j) == i \in getLog[j].during /\ getLog[i].ref = getLog[j].ref /\ getLog[i].miss /\ getLog[j].miss

\* a caller waits on a Notify whose notify_waiters call is already past
LostWakeup == \E g \in Getters : getter[g].pc = "parked"

\* every inner call so far returned Ok and no cached entry has expired
InnerOkAndFresh ==
    /\ \A i \in DOMAIN getLog : getLog[i].done => getLog[i].ok
    /\ \A g \in Getters : getter[g].pc \in {"store", "notify"} => getter[g].fetched.ok
    /\ instant = 0

\* single flight while the inner provider succeeds and nothing expires:
\* overlapping misses share one inner call and one value
SingleFlightWhenOk ==
    InnerOkAndFresh =>
        \A j \in DOMAIN getLog : \A i \in DOMAIN getLog :
            ConcurrentMisses(i, j) =>
                /\ ~(getLog[i].inner # {} /\ getLog[j].inner # {})
                /\ (getLog[i].done /\ getLog[j].done => getLog[i].value = getLog[j].value)

\* no caller is left waiting while the inner provider succeeds
NoLostWakeupWhenOk == InnerOkAndFresh => ~LostWakeup

\* C29: get calls for the same SecretRef that overlap and begin while no
\* unexpired entry is cached make one call to the underlying provider
\* between them, and every one of them returns that call's value.
C29_SingleFlight ==
    /\ \A j \in DOMAIN getLog : \A i \in DOMAIN getLog :
           ConcurrentMisses(i, j) =>
               /\ ~(getLog[i].inner # {} /\ getLog[j].inner # {})
               /\ (getLog[i].done /\ getLog[j].done => getLog[i].ok /\ getLog[j].ok /\ getLog[i].value = getLog[j].value)
    /\ ~LostWakeup

\* the unexpired entries an insertion removed to make room
EvictedUnexpired == {e \in provider.cache \ provider'.cache : e.expires_at > instant /\ \A f \in provider'.cache : f.ref # e.ref}

\* an entry that was not cached before is inserted
InsertsNewEntry == \E e \in provider'.cache : \A f \in provider.cache : f.ref # e.ref

\* the cache respects a capacity of at least one entry
CapacityHoldsFromOne == provider.config.max_entries >= 1 => Cardinality(provider.cache) <= provider.config.max_entries

\* an unexpired entry evicted for a new one has the oldest last access
\* among the unexpired entries
EvictsOldestUnexpired ==
    [][InsertsNewEntry => \A e \in EvictedUnexpired : \A f \in provider.cache : f.expires_at > instant => e.last_accessed <= f.last_accessed]_vars

\* an insertion evicts the older of two unexpired entries
EvictionChoosesBetweenTwo ==
    [][~(InsertsNewEntry /\ \E e \in EvictedUnexpired : \E f \in provider.cache : f.expires_at > instant /\ e.last_accessed < f.last_accessed)]_vars

\* C30: the secrets cache never holds more than max_entries entries, and
\* the entry evicted when a new entry is inserted at capacity is the one
\* with the oldest last access among the unexpired entries.
C30_CapacityNeverExceeded ==
    /\ [](provider.built => Cardinality(provider.cache) <= provider.config.max_entries)
    /\ [][InsertsNewEntry => \A e \in EvictedUnexpired : \A f \in provider.cache : f.expires_at > instant => e.last_accessed <= f.last_accessed]_vars

\* the get call began while an unexpired entry of its secret was cached:
\* LogBegin records the cached value and the call is over at once
ServedFromCache(i) == ~getLog[i].miss

ExpiredValueNeverReturned == \A i \in DOMAIN getLog : getLog[i].stale # 0 /\ getLog[i].done /\ getLog[i].ok => getLog[i].value > getLog[i].stale

RegisteredWaiterWoken == \A g \in Getters : (getter[g].pc = "waiting") ~> (getter[g].pc = "idle")

\* C36: every CachingProvider::get call eventually returns, provided every
\* call to the underlying provider returns.
C36_GetReturns == \A g \in Getters : (getter[g].pc # "idle") ~> (getter[g].pc = "idle")

\* a snapshot call has been made
Snapshotted == dec.pc = "called" /\ dec.fn = "snapshot"

\* the names of the headers on the wire whose value the secrets provider supplied
WireSecretHeaders(d) == {k \in DOMAIN d.out.wire.parts.headers : \E i \in DOMAIN d.out.wire.parts.headers[k] : d.out.wire.parts.headers[k][i] = d.in.secret}

\* the redact set of the call: the configured names and the secret-derived ones
RedactSet(d) == Range(d.in.always_redact) \cup WireSecretHeaders(d)

\* every header of the snapshot whose name is in the redact set, whatever
\* its case, carries the redaction marker
HeadersRedacted(d, json) == \A k \in DOMAIN json.headers : (\E r \in RedactSet(d) : Lower(k) = Lower(r)) => json.headers[k] = RedactedHeader

\* C32: every request and response snapshot persisted for an attempt has
\* the value of every header whose name is in the redact set replaced by
\* the redaction marker, and holds none of the request body bytes when the
\* body was marked secret-containing.
C32_SnapshotsRedacted ==
    Snapshotted /\ dec.out.persisted =>
        /\ HeadersRedacted(dec, dec.out.request)
        /\ HeadersRedacted(dec, dec.out.response)
        /\ dec.out.wire.body_contains_secrets => \A i \in DOMAIN dec.out.request.body : dec.out.request.body[i] \notin Range(dec.out.wire.parts.body)
        /\ \A i \in DOMAIN dec.out.wire.parts.body : dec.out.wire.parts.body[i] = dec.in.secret => dec.out.wire.body_contains_secrets

\* a request with a secret-derived header written in mixed case and a
\* secret-containing body was persisted, together with a response that
\* echoes the header name in another case
C32_Witness ==
    /\ Snapshotted /\ dec.out.persisted
    /\ "X-Api-Key" \in WireSecretHeaders(dec)
    /\ dec.out.wire.body_contains_secrets
    /\ "x-api-key" \in DOMAIN dec.out.response.headers
    /\ dec.out.request.headers["X-Api-Key"] = RedactedHeader

\* the fields of the persisted request JSON that C40 names
RequestFields(json) == [method |-> json.method, url |-> json.url, headers |-> json.headers, body |-> json.body]

\* the same call with the secrets provider returning another value
WithSecret(in, secret) == [in EXCEPT !.secret = secret]

\* the persisted request does not depend on the secret while secrets are
\* kept out of the URL
RequestIndependentWithoutUrlSecrets ==
    Snapshotted /\ dec.out.persisted /\ dec.in.secret \in SecretValues /\ ~dec.in.allow_secrets_in_url =>
        \A secret \in SecretValues : RequestFields(AttemptSnapshots(WithSecret(dec.in, secret)).request) = RequestFields(dec.out.request)

\* C40: two executions that differ only in the value of a referenced secret
\* persist identical request JSON (method, url, headers, body), for every
\* policy configuration including allow_secrets_in_url = true.
C40_RequestIndependentOfSecret ==
    Snapshotted /\ dec.out.persisted /\ dec.in.secret \in SecretValues =>
        \A secret \in SecretValues : RequestFields(AttemptSnapshots(WithSecret(dec.in, secret)).request) = RequestFields(dec.out.request)

\* a call of build_step_dependency_graph has been made
Planned == dec.pc = "called" /\ dec.fn = "build_step_dependency_graph"

\* the steps listed before position i
Before(order, i) == {order[j] : j \in 1 .. i - 1}

\* the steps that are ready at position i: not listed yet, every dependency listed
ReadyAt(d, i) == {n \in d.in.nodes : n \notin Before(d.out.topo_order, i) /\ d.out.depends_on[n] \subseteq Before(d.out.topo_order, i)}

RECURSIVE LevelOf(_, _)
\* compute_levels: 0 for a step without dependencies, else one more than its deepest dependency
LevelOf(d, n) == IF d.out.depends_on[n] = {} THEN 0 ELSE 1 + Max({LevelOf(d, m) : m \in d.out.depends_on[n]})

\* every step is listed after all of its dependencies
DependenciesFirst ==
    Planned /\ dec.out.ok =>
        \A i \in DOMAIN dec.out.topo_order : dec.out.depends_on[dec.out.topo_order[i]] \subseteq Before(dec.out.topo_order, i)

\* the steps of one level are listed in alphabetical order
LevelsAlphabetical ==
    Planned /\ dec.out.ok =>
        \A i \in DOMAIN dec.out.topo_order : \A j \in DOMAIN dec.out.topo_order :
            i < j /\ LevelOf(dec, dec.out.topo_order[i]) = LevelOf(dec, dec.out.topo_order[j]) => dec.out.topo_order[i] < dec.out.topo_order[j]

\* C33: for every acyclic step dependency graph topo_order lists every step
\* after all of its dependencies, and whenever several steps are ready at
\* the same point of the sort the alphabetically first of them comes next.
C33_TopoOrderAlphabetical ==
    Planned /\ dec.out.ok =>
        \A i \in DOMAIN dec.out.topo_order :
            /\ dec.out.depends_on[dec.out.topo_order[i]] \subseteq Before(dec.out.topo_order, i)
            /\ \A n \in ReadyAt(dec, i) : dec.out.topo_order[i] <= n

RECURSIVE ReachableFrom(_, _, _)
\* the steps reached from the steps of S along one or more dependency edges
ReachableFrom(d, S, seen) ==
    LET next == UNION {d.in.deps[n] \cap d.in.nodes : n \in S} \ seen
    IN  IF next = {} THEN seen ELSE ReachableFrom(d, next, seen \cup next)

\* the step dependency graph has a cycle: some step depends, directly or not, on itself
HasCycle(d) == \E n \in d.in.nodes : n \in ReachableFrom(d, {n}, {})

\* the order lists every step of the workflow exactly once
TotalOrder(d) ==
    /\ Len(d.out.topo_order) = Cardinality(d.in.nodes)
    /\ {d.out.topo_order[i] : i \in DOMAIN d.out.topo_order} = d.in.nodes

\* C34: planning is rejected with the cycle error exactly when the step
\* dependency graph has a cycle, a step that references its own outputs
\* included, and for an acyclic graph the order returned holds every step
\* exactly once.
C34_CycleRejected ==
    Planned =>
        /\ ~dec.out.ok <=> HasCycle(dec)
        /\ dec.out.ok => TotalOrder(dec)

\* a workflow whose only cycle is a step that references its own outputs is rejected
C34_Witness ==
    /\ Planned
    /\ ~dec.out.ok
    /\ \E n \in dec.in.nodes : n \in dec.in.deps[n]
    /\ ~HasCycle([in |-> [nodes |-> dec.in.nodes, deps |-> [m \in dec.in.nodes |-> dec.in.deps[m] \ {m}]]])

\* a cycle through two or more steps is rejected
LongCycleRejected == Planned /\ ~dec.out.ok /\ \A n \in dec.in.nodes : n \notin dec.in.deps[n]

\* a workflow of MaxPlanSteps steps, one of them with two dependencies, is ordered
DiamondOrdered == Planned /\ dec.out.ok /\ Len(dec.out.topo_order) = MaxPlanSteps /\ \E n \in dec.in.nodes : Cardinality(dec.out.depends_on[n]) = 2

\* the rows a step of the executor moves to running
MovedToRunning == {s \in Steps : stepStatus[s] # "running" /\ stepStatus'[s] = "running"}

\* the rows claim_steps moves to running are handed to a worker
ClaimStepsSpawnsWorkers == [][schedPc = "claim" => \A s \in MovedToRunning : worker'[s] = "start"]_vars

\* C35: every step row that execute_run moves to running is handed to a
\* worker in the same scheduler iteration, the claim made inside the
\* completion check included, so that no row is left running without a
\* worker that will mark it succeeded, failed or pending.
C35_ClaimedStepHasWorker == [][\A s \in MovedToRunning : worker'[s] = "start"]_vars

\* no step has more attempt rows than retry.max_attempts
AttemptsWithinMaxAttempts == \A s \in Steps : Len(attempts[s]) <= retryMaxAttempts

\* C37 as stated: in a run without crashes the number of attempt rows of any
\* step never exceeds retry.max_attempts, whatever failure actions the step
\* declares.
C37_AttemptsNeverExceedMaxAttempts == AttemptsWithinMaxAttempts

\* C37, corrected: in a run without crashes the number of attempt rows of
\* any step never exceeds retry.max_attempts or 1, whichever is larger,
\* whatever failure actions the step declares: the first attempt is made
\* before retry.max_attempts is looked at.
C37_AttemptsBounded == \A s \in Steps : Len(attempts[s]) <= Max({retryMaxAttempts, 1})

\* a step was retried until its attempts reached retry.max_attempts and failed
C37_Witness == \E s \in Steps : retryMaxAttempts >= 2 /\ Len(attempts[s]) = retryMaxAttempts /\ stepStatus[s] = "failed"

\* with crashes a step gets more attempt rows than retry.max_attempts >= 1
CrashAddsAttempts == \A s \in Steps : Len(attempts[s]) <= MaxAttempts

\* every attempt.started in the events of run_step for step s is followed by
\* an attempt.finished with the same attempt_no
StartedAttemptsFinished(s) ==
    \A i \in DOMAIN flow[s].trace :
        flow[s].trace[i].name = "attempt.started" =>
            \E j \in DOMAIN flow[s].trace : j > i /\ flow[s].trace[j] = Ev("attempt.finished", flow[s].trace[i].arg)

\* an attempt that ends in a network error or a response policy denial has
\* its attempt.finished event
FinishedOnNetworkErrorAndDenial ==
    \A s \in Steps : flow[s].pc = "returned" /\ flow[s].result.error \in {"network", "policy"} => StartedAttemptsFinished(s)

\* C38: every attempt.started event is followed by an attempt.finished event
\* for the same run, step and attempt_no by the time run_step returns,
\* whether the attempt ends in success, an HTTP failure, a response policy
\* denial or a network error.
C38_StartedAttemptFinished == \A s \in Steps : flow[s].pc = "returned" => StartedAttemptsFinished(s)

\* a call of mark_step_failed has been made
Marked == dec.pc = "called" /\ dec.fn = "mark_step_failed"

\* C39: mark_step_failed changes only the failed step's own row and the rows
\* of its descendants that are pending; rows that are running, succeeded,
\* failed or skipped, and rows of steps that are not descendants of the
\* failed step, keep their status, outputs and error.
C39_MarkStepFailedFrame ==
    Marked =>
        \A d \in Steps :
            dec.out[d] # dec.in.rows[d] => d = dec.in.step_id \/ (d \in Descendants(dec.in.step_id) /\ dec.in.rows[d].status = "pending")

\* a step fails, its pending descendant is skipped and a running step that is
\* no descendant keeps its row
C39_Witness ==
    /\ Marked
    /\ \E d \in Descendants(dec.in.step_id) : dec.in.rows[d].status = "pending" /\ dec.out[d].status = "skipped"
    /\ \E d \in Steps \ Descendants(dec.in.step_id) : d # dec.in.step_id /\ dec.in.rows[d].status = "running" /\ dec.out[d] = dec.in.rows[d]

\* a step fails and a descendant that was skipped earlier keeps the error it has
SkippedDescendantKept == Marked /\ \E d \in Descendants(dec.in.step_id) : dec.in.rows[d].status = "skipped" /\ dec.out[d].error = "e0"
====
